---- MODULE Spec2Model ----
(***************************************************************************)
(* SubqueryToJoinRule (src/lib/optimizer/strategy/subquery_to_join_rule.cpp)*)
(* as a state machine over a heap of LQP nodes.                            *)
(*                                                                         *)
(* A node is a record in the sequence `nodes`; its index is its identity   *)
(* (the shared_ptr).  An input pointer is an index, 0 is nullptr.  An      *)
(* expression is a record; `obj` is the identity of the expression object  *)
(* for the places where the code compares pointers instead of values.      *)
(* One step of the machine is one call of apply_to on one node; the        *)
(* pending calls of _apply_to_inputs are the frames of `stack`.            *)
(***************************************************************************)
EXTENDS Integers, Sequences, FiniteSets, TLC

VARIABLES nodes, root, stack, status, last, input_nodes, pass, first_result

vars == <<nodes, root, stack, status, last, input_nodes, pass, first_result>>

(***************************************************************************)
(* Bounds of the input family                                              *)
(***************************************************************************)
\* the longest chain of nodes between the subquery root and its table
MaxDepth == 3

(***************************************************************************)
(* Expressions                                                             *)
(***************************************************************************)
NoSeq == <<>>

Expr(type, cond, args, ref, col, ids, obj) ==
  [type |-> type, cond |-> cond, args |-> args, ref |-> ref, col |-> col,
   ids |-> ids, obj |-> obj]

\* nullptr for an expression pointer (base_join_predicate == nullptr)
NoExpr == Expr("None", "", NoSeq, 0, "", NoSeq, 0)

\* LQPColumnExpression: a column `col` of the StoredTableNode `n`
Column(n, col, obj) == Expr("LQPColumn", "", NoSeq, n, col, NoSeq, obj)

CorrelatedParameter(id) == Expr("CorrelatedParameter", "", NoSeq, id, "", NoSeq, 0)

Value(v) == Expr("Value", "", NoSeq, v, "", NoSeq, 0)

BinaryPredicate(cond, l, r) == Expr("Predicate", cond, <<l, r>>, 0, "", NoSeq, 0)

\* InExpression: value() is args[1], set() is args[2]
InExpr(cond, value, set) == Expr("Predicate", cond, <<value, set>>, 0, "", NoSeq, 0)

\* ExistsExpression: cond is the exists_expression_type
ExistsExpr(cond, sub) == Expr("Exists", cond, <<sub>>, 0, "", NoSeq, 0)

\* LQPSubqueryExpression: lqp is ref, parameter_ids is ids, the parameter
\* expressions are the arguments
LQPSubquery(lqp, ids, exprs) == Expr("LQPSubquery", "", exprs, lqp, "", ids, 0)

LogicalAnd(l, r) == Expr("Logical", "And", <<l, r>>, 0, "", NoSeq, 0)

Arithmetic(l, r) == Expr("Arithmetic", "Addition", <<l, r>>, 0, "", NoSeq, 0)

CountStar == Expr("Aggregate", "Count", NoSeq, 0, "", NoSeq, 0)

ListExpr(es) == Expr("List", "", es, 0, "", NoSeq, 0)

\* operator== of expressions is structural: the object identity plays no role
RECURSIVE Norm(_)
Norm(e) ==
  [e EXCEPT !.obj = 0, !.args = [i \in DOMAIN e.args |-> Norm(e.args[i])]]

ExprEq(e, f) == Norm(e) = Norm(f)

NormAll(es) == [i \in DOMAIN es |-> Norm(es[i])]

\* e occurs (by value) in the list es
InList(e, es) == \E i \in DOMAIN es : ExprEq(es[i], e)

ComparisonConditions ==
  {"Equals", "NotEquals", "LessThan", "LessThanEquals", "GreaterThan",
   "GreaterThanEquals"}

flip_predicate_condition(c) ==
  CASE c = "LessThan" -> "GreaterThan"
    [] c = "LessThanEquals" -> "GreaterThanEquals"
    [] c = "GreaterThan" -> "LessThan"
    [] c = "GreaterThanEquals" -> "LessThanEquals"
    [] OTHER -> c

(***************************************************************************)
(* Nodes                                                                   *)
(***************************************************************************)
Node(type, mode, exprs, left, right, agg, aliases) ==
  [type |-> type, join_mode |-> mode, node_expressions |-> exprs,
   left_input |-> left, right_input |-> right,
   aggregate_expressions_begin_idx |-> agg, aliases |-> aliases]

StoredTableNode == Node("StoredTable", "", NoSeq, 0, 0, 0, NoSeq)
PredicateNode(p, in) == Node("Predicate", "", <<p>>, in, 0, 0, NoSeq)
JoinNode(mode, preds, l, r) == Node("Join", mode, preds, l, r, 0, NoSeq)
AggregateNode(group_by, aggs, in) ==
  Node("Aggregate", "", group_by \o aggs, in, 0, Len(group_by), NoSeq)
ProjectionNode(es, in) == Node("Projection", "", es, in, 0, 0, NoSeq)
AliasNode(es, aliases, in) == Node("Alias", "", es, in, 0, 0, aliases)
SortNode(es, in) == Node("Sort", "", es, in, 0, 0, NoSeq)
ValidateNode(in) == Node("Validate", "", NoSeq, in, 0, 0, NoSeq)
LimitNode(in) == Node("Limit", "", <<Value(1)>>, in, 0, 0, NoSeq)
UnionNode(l, r) == Node("Union", "", NoSeq, l, r, 0, NoSeq)
RootNode(in) == Node("Root", "", NoSeq, in, 0, 0, NoSeq)

JoinModes ==
  {"Inner", "Cross", "Left", "Right", "FullOuter", "Semi", "AntiNullAsFalse",
   "AntiNullAsTrue"}

ColumnNames == <<"a", "b", "c">>

\* the columns a node produces, in order
RECURSIVE column_expressions(_, _)
column_expressions(h, n) ==
  LET q == h[n] IN
  CASE q.type = "StoredTable" ->
         [i \in DOMAIN ColumnNames |-> Column(n, ColumnNames[i], 0)]
    [] q.type \in {"Projection", "Alias", "Aggregate"} -> q.node_expressions
    [] q.type = "Join" ->
         IF q.join_mode \in {"Semi", "AntiNullAsFalse", "AntiNullAsTrue"}
         THEN column_expressions(h, q.left_input)
         ELSE column_expressions(h, q.left_input)
                \o column_expressions(h, q.right_input)
    [] OTHER ->
         IF q.left_input = 0 THEN NoSeq ELSE column_expressions(h, q.left_input)

\* the expression resolves to a column the node produces
find_column_id(h, n, e) == InList(e, column_expressions(h, n))

\* the column name of an expression, as an alias
as_column_name(e) == IF e.type = "LQPColumn" THEN e.col ELSE e.cond

(***************************************************************************)
(* The rule's helpers                                                      *)
(***************************************************************************)
Sides(l, r) == [left |-> l, right |-> r]

calculate_safe_recursion_sides(h, n) ==
  LET q == h[n] IN
  CASE q.type = "Join" ->
         (CASE q.join_mode \in {"Inner", "Cross"} -> Sides(TRUE, TRUE)
            [] q.join_mode \in {"Left", "Semi", "AntiNullAsFalse", "AntiNullAsTrue"} ->
                 Sides(TRUE, FALSE)
            [] q.join_mode = "Right" -> Sides(FALSE, TRUE)
            [] OTHER -> Sides(FALSE, FALSE))
    [] q.type \in {"Predicate", "Aggregate", "Alias", "Projection", "Sort", "Validate"} ->
         Sides(TRUE, FALSE)
    [] OTHER -> Sides(FALSE, FALSE)

\* LQPSubqueryExpression::is_correlated: it has parameters
is_correlated(sub) == Len(sub.args) > 0

\* the std::map built in apply_to; emplace keeps the first entry of an id
parameter_mapping(sub) ==
  [id \in {sub.ids[i] : i \in DOMAIN sub.ids} |->
     sub.args[CHOOSE i \in DOMAIN sub.ids :
                /\ sub.ids[i] = id
                /\ \A j \in DOMAIN sub.ids : sub.ids[j] = id => i <= j]]

Pair(n, p) == [first |-> n, second |-> p]

\* the condition kept as it is when the parameter is the right operand
try_to_extract_join_predicate_unflipped(h, n, M, is_below_aggregate) ==
  LET p == h[n].node_expressions[1] IN
  IF p.type # "Predicate" THEN NoExpr
  ELSE IF p.cond \notin ComparisonConditions THEN NoExpr
  ELSE IF is_below_aggregate /\ p.cond # "Equals" THEN NoExpr
  ELSE
    LET left_side == p.args[1]
        right_side == p.args[2]
        param_left == left_side.type = "CorrelatedParameter"
        param_right == right_side.type = "CorrelatedParameter"
    IN
    IF ~param_left /\ ~param_right THEN NoExpr
    ELSE
      LET parameter_id == IF param_left THEN left_side.ref ELSE right_side.ref
          right_operand == IF param_left THEN right_side ELSE left_side
      IN
      IF ~find_column_id(h, n, right_operand) THEN NoExpr
      ELSE IF parameter_id \notin DOMAIN M THEN NoExpr
      ELSE BinaryPredicate(p.cond, M[parameter_id], right_operand)

try_to_extract_join_predicate(h, n, M, is_below_aggregate) ==
  LET p == h[n].node_expressions[1] IN
  IF p.type # "Predicate" THEN NoExpr
  ELSE IF p.cond \notin ComparisonConditions THEN NoExpr
  ELSE IF is_below_aggregate /\ p.cond # "Equals" THEN NoExpr
  ELSE
    LET left_side == p.args[1]
        right_side == p.args[2]
        param_left == left_side.type = "CorrelatedParameter"
        param_right == right_side.type = "CorrelatedParameter"
    IN
    IF ~param_left /\ ~param_right THEN NoExpr
    ELSE
      LET predicate_condition ==
            IF param_left THEN p.cond ELSE flip_predicate_condition(p.cond)
          parameter_id == IF param_left THEN left_side.ref ELSE right_side.ref
          right_operand == IF param_left THEN right_side ELSE left_side
      IN
      IF ~find_column_id(h, n, right_operand) THEN NoExpr
      ELSE IF parameter_id \notin DOMAIN M THEN NoExpr
      ELSE BinaryPredicate(predicate_condition, M[parameter_id], right_operand)

\* the pairs of the inputs put before the pair of the node
RECURSIVE find_pullable_predicate_nodes_recursive_inputs_first(_, _, _, _)
find_pullable_predicate_nodes_recursive_inputs_first(h, n, M, is_below_aggregate) ==
  LET q == h[n]
      join_predicate ==
        IF q.type = "Predicate"
        THEN try_to_extract_join_predicate(h, n, M, is_below_aggregate)
        ELSE NoExpr
      here == IF join_predicate # NoExpr THEN <<Pair(n, join_predicate)>> ELSE NoSeq
      below == is_below_aggregate \/ q.type = "Aggregate"
      sides == calculate_safe_recursion_sides(h, n)
      from_left ==
        IF sides.left
        THEN find_pullable_predicate_nodes_recursive_inputs_first(h, q.left_input, M, below)
        ELSE NoSeq
      from_right ==
        IF sides.right
        THEN find_pullable_predicate_nodes_recursive_inputs_first(h, q.right_input, M, below)
        ELSE NoSeq
  IN from_left \o from_right \o here

RECURSIVE find_pullable_predicate_nodes_recursive(_, _, _, _)
find_pullable_predicate_nodes_recursive(h, n, M, is_below_aggregate) ==
  LET q == h[n]
      join_predicate ==
        IF q.type = "Predicate"
        THEN try_to_extract_join_predicate(h, n, M, is_below_aggregate)
        ELSE NoExpr
      here == IF join_predicate # NoExpr THEN <<Pair(n, join_predicate)>> ELSE NoSeq
      below == is_below_aggregate \/ q.type = "Aggregate"
      sides == calculate_safe_recursion_sides(h, n)
      from_left ==
        IF sides.left
        THEN find_pullable_predicate_nodes_recursive(h, q.left_input, M, below)
        ELSE NoSeq
      from_right ==
        IF sides.right
        THEN find_pullable_predicate_nodes_recursive(h, q.right_input, M, below)
        ELSE NoSeq
  IN here \o from_left \o from_right

find_pullable_predicate_nodes(h, n, M) ==
  find_pullable_predicate_nodes_recursive(h, n, M, FALSE)

\* every parameter taken as correlated, bound by the subquery or not
RECURSIVE expression_uses_parameters_any_scope(_, _)
expression_uses_parameters_any_scope(e, M) ==
  \/ e.type = "CorrelatedParameter"
  \/ \E i \in DOMAIN e.args : expression_uses_parameters_any_scope(e.args[i], M)

\* visit_expression: the expression or one of its arguments is a parameter of M
RECURSIVE expression_uses_parameters(_, _)
expression_uses_parameters(e, M) ==
  \/ e.type = "CorrelatedParameter" /\ e.ref \in DOMAIN M
  \/ \E i \in DOMAIN e.args : expression_uses_parameters(e.args[i], M)

uses_correlated_parameters(h, n, M) ==
  \E i \in DOMAIN h[n].node_expressions :
    expression_uses_parameters(h[n].node_expressions[i], M)

\* visit_lqp: the nodes reached from n over input pointers, each once
RECURSIVE visit_lqp(_, _)
visit_lqp(h, n) ==
  IF n = 0 THEN {}
  ELSE {n} \cup visit_lqp(h, h[n].left_input) \cup visit_lqp(h, h[n].right_input)

\* the uses outside of predicate nodes not looked for
assess_correlated_parameter_usage_predicates_only(h, lqp, M) ==
  LET visited == visit_lqp(h, lqp)
      using == {n \in visited : uses_correlated_parameters(h, n, M)}
  IN [not_optimizable |-> FALSE,
      correlated_predicate_node_count |->
        Cardinality({n \in using : h[n].type = "Predicate"})]

assess_correlated_parameter_usage(h, lqp, M) ==
  LET visited == visit_lqp(h, lqp)
      using == {n \in visited : uses_correlated_parameters(h, n, M)}
  IN [not_optimizable |-> \E n \in using : h[n].type # "Predicate",
      correlated_predicate_node_count |->
        Cardinality({n \in using : h[n].type = "Predicate"})]

\* the expressions of `required` that are in none of `original`, in order
RECURSIVE missing_expressions(_, _)
missing_expressions(required, original) ==
  IF required = NoSeq THEN NoSeq
  ELSE (IF InList(Head(required), original) THEN NoSeq ELSE <<Head(required)>>)
         \o missing_expressions(Tail(required), original)

\* every required column appended, the original group-by expressions not
\* looked at
adapt_aggregate_node_appending_all(q, required_column_expressions) ==
  AggregateNode(
    SubSeq(q.node_expressions, 1, q.aggregate_expressions_begin_idx)
      \o required_column_expressions,
    SubSeq(q.node_expressions, q.aggregate_expressions_begin_idx + 1,
           Len(q.node_expressions)), 0)

adapt_aggregate_node(q, required_column_expressions) ==
  LET group_by_expressions ==
        SubSeq(q.node_expressions, 1, q.aggregate_expressions_begin_idx)
      aggregate_expressions ==
        SubSeq(q.node_expressions, q.aggregate_expressions_begin_idx + 1,
               Len(q.node_expressions))
  IN AggregateNode(
       group_by_expressions
         \o missing_expressions(required_column_expressions, group_by_expressions),
       aggregate_expressions, 0)

\* the required columns added without an alias for them
adapt_alias_node_aliases_kept(q, required_column_expressions) ==
  AliasNode(
    q.node_expressions
      \o missing_expressions(required_column_expressions, q.node_expressions),
    q.aliases, 0)

adapt_alias_node(q, required_column_expressions) ==
  LET added == missing_expressions(required_column_expressions, q.node_expressions)
  IN AliasNode(q.node_expressions \o added,
               q.aliases \o [i \in DOMAIN added |-> as_column_name(added[i])], 0)

\* the required columns put in front of the projection's own
adapt_projection_node_prepending(q, required_column_expressions) ==
  ProjectionNode(
    missing_expressions(required_column_expressions, q.node_expressions)
      \o q.node_expressions, 0)

\* the projection copied as it is, the required columns not added
adapt_projection_node_unchanged(q, required_column_expressions) ==
  ProjectionNode(q.node_expressions, 0)

adapt_projection_node(q, required_column_expressions) ==
  ProjectionNode(
    q.node_expressions
      \o missing_expressions(required_column_expressions, q.node_expressions), 0)

PullUpInfo(h, n, req) ==
  [heap |-> h, adapted_lqp |-> n, required_column_expressions |-> req]

\* the position of the first pair whose node is n, 0 if there is none
RECURSIVE find_pair(_, _, _)
find_pair(pairs, n, i) ==
  IF i > Len(pairs) THEN 0
  ELSE IF pairs[i].first = n THEN i ELSE find_pair(pairs, n, i + 1)

\* std::find over shared_ptr: the same object, not an equal value
HasPointer(es, e) == \E i \in DOMAIN es : es[i] = e

\* a node made by ::make gets the next free identity
Alloc(h, q) == Append(h, q)

Made(h, q, required) == PullUpInfo(Alloc(h, q), Len(h) + 1, required)

\* the predicate node kept and given the adapted input, not copied
adapt_predicate_node_in_place(h, n, q, pullable_predicate_nodes, pair_it, left_input_adapted, required) ==
  IF pair_it = 0
  THEN PullUpInfo([h EXCEPT ![n].left_input = left_input_adapted], n, required)
  ELSE PullUpInfo(h, left_input_adapted,
         IF HasPointer(required, pullable_predicate_nodes[pair_it].second.args[2])
         THEN required
         ELSE Append(required, pullable_predicate_nodes[pair_it].second.args[2]))

\* lines 428-445: an uncorrelated predicate node is copied, a correlated one
\* removed and its column required
adapt_predicate_node(h, n, q, pullable_predicate_nodes, pair_it, left_input_adapted, required) ==
  IF pair_it = 0
  THEN Made(h, PredicateNode(q.node_expressions[1], left_input_adapted), required)
  ELSE PullUpInfo(h, left_input_adapted,
         IF HasPointer(required, pullable_predicate_nodes[pair_it].second.args[2])
         THEN required
         ELSE Append(required, pullable_predicate_nodes[pair_it].second.args[2]))

\* a node whose inputs were not adapted and that no column is required of is
\* kept, not copied
adapt_node_reusing_unchanged(h, n, q, pullable_predicate_nodes, pair_it, left_input_adapted, right_input_adapted, required) ==
  IF /\ pair_it = 0
     /\ left_input_adapted = q.left_input
     /\ right_input_adapted = q.right_input
     /\ required = NoSeq
  THEN PullUpInfo(h, n, required)
  ELSE
  CASE q.type = "Predicate" ->
         adapt_predicate_node(h, n, q, pullable_predicate_nodes, pair_it,
                              left_input_adapted, required)
    [] q.type = "Aggregate" ->
         Made(h, [adapt_aggregate_node(q, required) EXCEPT !.left_input = left_input_adapted],
              required)
    [] q.type = "Alias" ->
         Made(h, [adapt_alias_node(q, required) EXCEPT !.left_input = left_input_adapted],
              required)
    [] q.type = "Projection" ->
         Made(h, [adapt_projection_node(q, required) EXCEPT !.left_input = left_input_adapted],
              required)
    [] q.type = "Sort" -> Made(h, SortNode(q.node_expressions, left_input_adapted), required)
    [] q.type = "Validate" -> Made(h, ValidateNode(left_input_adapted), required)
    [] q.type = "Join" ->
         Made(h, JoinNode(q.join_mode, q.node_expressions, left_input_adapted,
                          right_input_adapted), required)
    [] OTHER -> PullUpInfo(h, n, required)

\* lines 426-483: the node is removed, copied or kept, its inputs adapted
adapt_node(h, n, q, pullable_predicate_nodes, pair_it, left_input_adapted, right_input_adapted, required) ==
  CASE q.type = "Predicate" ->
         adapt_predicate_node(h, n, q, pullable_predicate_nodes, pair_it,
                              left_input_adapted, required)
    [] q.type = "Aggregate" ->
         Made(h, [adapt_aggregate_node(q, required) EXCEPT !.left_input = left_input_adapted],
              required)
    [] q.type = "Alias" ->
         Made(h, [adapt_alias_node(q, required) EXCEPT !.left_input = left_input_adapted],
              required)
    [] q.type = "Projection" ->
         Made(h, [adapt_projection_node(q, required) EXCEPT !.left_input = left_input_adapted],
              required)
    [] q.type = "Sort" -> Made(h, SortNode(q.node_expressions, left_input_adapted), required)
    [] q.type = "Validate" -> Made(h, ValidateNode(left_input_adapted), required)
    [] q.type = "Join" ->
         IF q.join_mode = "Cross"
         THEN Made(h, JoinNode("Cross", NoSeq, left_input_adapted, right_input_adapted),
                   required)
         ELSE Made(h, JoinNode(q.join_mode, q.node_expressions, left_input_adapted,
                               right_input_adapted), required)
    [] OTHER -> PullUpInfo(h, n, required)

RECURSIVE copy_and_adapt_lqp(_, _, _)

\* lines 417-424: the right input, in the heap the left recursion left
adapt_right(n, q, sides, pullable_predicate_nodes, left_info) ==
  IF sides.right
  THEN copy_and_adapt_lqp(left_info.heap, q.right_input, pullable_predicate_nodes)
  ELSE PullUpInfo(left_info.heap, q.right_input, NoSeq)

\* the columns required by the right input dropped
adapt_inputs_left_required(n, q, pullable_predicate_nodes, left_info, right_info) ==
  adapt_node(right_info.heap, n, q, pullable_predicate_nodes,
             find_pair(pullable_predicate_nodes, n, 1), left_info.adapted_lqp,
             right_info.adapted_lqp, left_info.required_column_expressions)

adapt_inputs(n, q, pullable_predicate_nodes, left_info, right_info) ==
  adapt_node(right_info.heap, n, q, pullable_predicate_nodes,
             find_pair(pullable_predicate_nodes, n, 1), left_info.adapted_lqp,
             right_info.adapted_lqp,
             left_info.required_column_expressions
               \o right_info.required_column_expressions)

adapt_left(n, q, sides, pullable_predicate_nodes, left_info) ==
  adapt_inputs(n, q, pullable_predicate_nodes, left_info,
               adapt_right(n, q, sides, pullable_predicate_nodes, left_info))

\* the node itself given the adapted left input before it is copied
adapt_sides_relinking(h, n, q, sides, pullable_predicate_nodes) ==
  LET left_info == IF sides.left
                   THEN copy_and_adapt_lqp(h, q.left_input, pullable_predicate_nodes)
                   ELSE PullUpInfo(h, q.left_input, NoSeq)
  IN adapt_left(n, q, sides, pullable_predicate_nodes,
                [left_info EXCEPT !.heap[n].left_input = left_info.adapted_lqp])

adapt_sides(h, n, q, sides, pullable_predicate_nodes) ==
  adapt_left(n, q, sides, pullable_predicate_nodes,
             IF sides.left
             THEN copy_and_adapt_lqp(h, q.left_input, pullable_predicate_nodes)
             ELSE PullUpInfo(h, q.left_input, NoSeq))

copy_and_adapt_lqp(h, n, pullable_predicate_nodes) ==
  adapt_sides(h, n, h[n], calculate_safe_recursion_sides(h, n), pullable_predicate_nodes)

InputLQPInfo(kind, sub, mode, base) ==
  [kind |-> kind, subquery_expression |-> sub, join_mode |-> mode,
   base_join_predicate |-> base]

NoInfo == InputLQPInfo("none", NoExpr, "", NoExpr)

\* the first column of the subquery taken without the check of their number
single_column_join_predicate_unchecked(h, left_tree_root, subquery_expression, comparison_expression, comparison_condition, join_mode) ==
  IF ~find_column_id(h, left_tree_root, comparison_expression) THEN NoInfo
  ELSE InputLQPInfo("info", subquery_expression, join_mode,
         BinaryPredicate(comparison_condition, comparison_expression,
                         column_expressions(h, subquery_expression.ref)[1]))

\* lines 172-183: the comparison expression is a column of the left input, the
\* subquery returns a single column (Assert), the base join predicate
single_column_join_predicate(h, left_tree_root, subquery_expression, comparison_expression, comparison_condition, join_mode) ==
  IF ~find_column_id(h, left_tree_root, comparison_expression) THEN NoInfo
  ELSE IF Len(column_expressions(h, subquery_expression.ref)) # 1
  THEN InputLQPInfo("fail", subquery_expression, join_mode, NoExpr)
  ELSE InputLQPInfo("info", subquery_expression, join_mode,
         BinaryPredicate(comparison_condition, comparison_expression,
                         column_expressions(h, subquery_expression.ref)[1]))

\* NOT IN made the anti join of NOT EXISTS
extract_in_expression_null_as_false(h, left_tree_root, in_expression) ==
  IF in_expression.args[2].type # "LQPSubquery" THEN NoInfo
  ELSE IF in_expression.cond = "NotIn" /\ is_correlated(in_expression.args[2])
  THEN NoInfo
  ELSE single_column_join_predicate(h, left_tree_root, in_expression.args[2],
         in_expression.args[1], "Equals",
         IF in_expression.cond = "NotIn" THEN "AntiNullAsFalse" ELSE "Semi")

\* a correlated NOT IN taken like any other
extract_in_expression_any_not_in(h, left_tree_root, in_expression) ==
  IF in_expression.args[2].type # "LQPSubquery" THEN NoInfo
  ELSE single_column_join_predicate(h, left_tree_root, in_expression.args[2],
         in_expression.args[1], "Equals",
         IF in_expression.cond = "NotIn" THEN "AntiNullAsTrue" ELSE "Semi")

\* lines 121-141: (NOT) IN
extract_in_expression(h, left_tree_root, in_expression) ==
  IF in_expression.args[2].type # "LQPSubquery" THEN NoInfo
  ELSE IF in_expression.cond = "NotIn" /\ is_correlated(in_expression.args[2])
  THEN NoInfo
  ELSE single_column_join_predicate(h, left_tree_root, in_expression.args[2],
         in_expression.args[1], "Equals",
         IF in_expression.cond = "NotIn" THEN "AntiNullAsTrue" ELSE "Semi")

\* the condition taken as it is also when the subquery is the left operand
extract_binary_predicate_unflipped(h, left_tree_root, p) ==
  IF p.args[1].type = "LQPSubquery"
  THEN single_column_join_predicate(h, left_tree_root, p.args[1], p.args[2], p.cond,
                                    "Semi")
  ELSE IF p.args[2].type = "LQPSubquery"
  THEN single_column_join_predicate(h, left_tree_root, p.args[2], p.args[1], p.cond,
                                    "Semi")
  ELSE NoInfo

\* lines 142-167: a comparison with a subquery on one side
extract_binary_predicate(h, left_tree_root, p) ==
  IF p.args[1].type = "LQPSubquery"
  THEN single_column_join_predicate(h, left_tree_root, p.args[1], p.args[2],
                                    flip_predicate_condition(p.cond), "Semi")
  ELSE IF p.args[2].type = "LQPSubquery"
  THEN single_column_join_predicate(h, left_tree_root, p.args[2], p.args[1], p.cond,
                                    "Semi")
  ELSE NoInfo

\* NOT EXISTS made the anti join of NOT IN
extract_exists_expression_null_as_true(exists_expression) ==
  IF exists_expression.args[1].type # "LQPSubquery"
  THEN InputLQPInfo("fail", NoExpr, "", NoExpr)
  ELSE IF ~is_correlated(exists_expression.args[1]) THEN NoInfo
  ELSE InputLQPInfo("info", exists_expression.args[1],
         IF exists_expression.cond = "Exists" THEN "Semi" ELSE "AntiNullAsTrue",
         NoExpr)

\* lines 185-202: (NOT) EXISTS
extract_exists_expression(exists_expression) ==
  IF exists_expression.args[1].type # "LQPSubquery"
  THEN InputLQPInfo("fail", NoExpr, "", NoExpr)
  ELSE IF ~is_correlated(exists_expression.args[1]) THEN NoInfo
  ELSE InputLQPInfo("info", exists_expression.args[1],
         IF exists_expression.cond = "Exists" THEN "Semi" ELSE "AntiNullAsFalse",
         NoExpr)

predicate_info(h, left_tree_root, p) ==
  CASE p.type = "Predicate" /\ p.cond \in {"In", "NotIn"} ->
         extract_in_expression(h, left_tree_root, p)
    [] p.type = "Predicate" /\ p.cond \in ComparisonConditions ->
         extract_binary_predicate(h, left_tree_root, p)
    [] p.type = "Exists" -> extract_exists_expression(p)
    [] OTHER -> NoInfo

extract_input_lqp_info(h, n) ==
  IF h[n].type # "Predicate" THEN NoInfo
  ELSE predicate_info(h, h[n].left_input, h[n].node_expressions[1])

\* the first equality put in front of the others instead of exchanged
RECURSIVE collect_join_predicates_equality_inserted(_, _, _, _)
collect_join_predicates_equality_inserted(join_predicates, found_equals_predicate, pairs, i) ==
  IF i > Len(pairs)
  THEN [join_predicates |-> join_predicates,
        found_equals_predicate |-> found_equals_predicate]
  ELSE
    LET swap == ~found_equals_predicate /\ pairs[i].second.cond = "Equals"
    IN collect_join_predicates_equality_inserted(
         IF swap THEN <<pairs[i].second>> \o join_predicates
         ELSE Append(join_predicates, pairs[i].second),
         found_equals_predicate \/ swap, pairs, i + 1)

\* lines 542-555 of apply_to: the base predicate, then the pulled ones, the
\* first equality found while the front is none swapped to the front
RECURSIVE collect_join_predicates(_, _, _, _)
collect_join_predicates(join_predicates, found_equals_predicate, pairs, i) ==
  IF i > Len(pairs)
  THEN [join_predicates |-> join_predicates,
        found_equals_predicate |-> found_equals_predicate]
  ELSE
    LET appended == Append(join_predicates, pairs[i].second)
        swap == ~found_equals_predicate /\ pairs[i].second.cond = "Equals"
        k == Len(appended)
        swapped == [appended EXCEPT ![1] = appended[k], ![k] = appended[1]]
    IN collect_join_predicates(IF swap THEN swapped ELSE appended,
                               found_equals_predicate \/ swap, pairs, i + 1)

\* the predicates as they were collected, no equality moved to the front
assemble_join_predicates_unordered(base_join_predicate, pairs) ==
  [join_predicates |->
     (IF base_join_predicate # NoExpr THEN <<base_join_predicate>> ELSE NoSeq)
       \o [i \in DOMAIN pairs |-> pairs[i].second],
   found_equals_predicate |->
     \/ base_join_predicate # NoExpr /\ base_join_predicate.cond = "Equals"
     \/ \E i \in DOMAIN pairs : pairs[i].second.cond = "Equals"]

assemble_join_predicates(base_join_predicate, pairs) ==
  IF base_join_predicate # NoExpr
  THEN collect_join_predicates(<<base_join_predicate>>,
                               base_join_predicate.cond = "Equals", pairs, 1)
  ELSE collect_join_predicates(NoSeq, FALSE, pairs, 1)

\* every output of `original` gets `replacement` in its place, the replacement
\* takes the inputs of the original, the original is untied
lqp_replace_node(h, original, replacement) ==
  [k \in DOMAIN h |->
     IF k = original THEN [h[k] EXCEPT !.left_input = 0, !.right_input = 0]
     ELSE IF k = replacement
     THEN [h[k] EXCEPT !.left_input = h[original].left_input,
                       !.right_input = h[original].right_input]
     ELSE [h[k] EXCEPT
             !.left_input = IF @ = original THEN replacement ELSE @,
             !.right_input = IF @ = original THEN replacement ELSE @]]

(***************************************************************************)
(* Input plans.  Table a (node 1) is the outer table, table b (node 2) the *)
(* table of the subquery, table c (node 3) a second inner table, node 4    *)
(* the plan of an uncorrelated inner subquery SELECT c.a FROM c.  The      *)
(* subquery plan is a chain of layers over table b, written top first.     *)
(* Parameter 0 is bound to a.b, parameter 1 to a.c, parameter 7 belongs to *)
(* an enclosing query.                                                     *)
(***************************************************************************)
TableA == 1
TableB == 2
TableC == 3
InnerPlan == 4
ForeignParameter == 7

Layer(kind, mode) == [kind |-> kind, mode |-> mode]

\* layers that may repeat freely in a chain
CoreLayers == {Layer(k, "") : k \in {"Projection", "Aggregate", "PredEq"}}

\* layers of which a chain holds at most one
SpecialLayers ==
  {Layer(k, "") : k \in {"AggregateGroup", "Alias", "Sort", "Validate", "Limit",
                         "PredLt", "PredLeq", "PredLit", "PredAnd", "PredIn",
                         "PredForeign", "ProjectionParam", "SortParam", "JoinParam",
                         "JoinSelf", "JoinSelfLeft", "ProjectionB", "AggregateGroupB",
                         "AliasB"}}
    \cup {Layer(k, m) : k \in {"JoinLeft", "JoinRight"}, m \in JoinModes}

Layers == CoreLayers \cup SpecialLayers

EqBParam0(obj) ==
  BinaryPredicate("Equals", Column(TableB, "b", obj), CorrelatedParameter(0))
LtCParam1(obj) ==
  BinaryPredicate("LessThan", Column(TableB, "c", obj), CorrelatedParameter(1))

\* the node of a layer; the column operand of its predicate is an expression
\* object of its own, named after the node
MakeLayer(l, id, below) ==
  LET k == l.kind
      ba == Column(TableB, "a", 0)
      bb == Column(TableB, "b", 0)
      join_predicates ==
        IF l.mode = "Cross" THEN NoSeq
        ELSE <<BinaryPredicate("Equals", ba, Column(TableC, "a", 0))>>
  IN
  CASE k = "Projection" -> ProjectionNode(<<ba>>, below)
    [] k = "Aggregate" -> AggregateNode(NoSeq, <<CountStar>>, below)
    [] k = "AggregateGroup" -> AggregateNode(<<ba>>, <<CountStar>>, below)
    [] k = "Alias" -> AliasNode(<<ba>>, <<"x">>, below)
    [] k = "Sort" -> SortNode(<<ba>>, below)
    [] k = "Validate" -> ValidateNode(below)
    [] k = "Limit" -> LimitNode(below)
    [] k = "PredEq" -> PredicateNode(EqBParam0(id), below)
    [] k = "PredLt" -> PredicateNode(LtCParam1(id), below)
    [] k = "PredLeq" ->
         PredicateNode(BinaryPredicate("LessThanEquals", CorrelatedParameter(1),
                                       Column(TableB, "c", id)), below)
    [] k = "PredLit" ->
         PredicateNode(BinaryPredicate("Equals", Column(TableB, "a", id), Value(1)),
                       below)
    [] k = "PredAnd" -> PredicateNode(LogicalAnd(EqBParam0(id), LtCParam1(id)), below)
    [] k = "PredIn" ->
         PredicateNode(InExpr("In", Column(TableB, "a", id),
                              LQPSubquery(InnerPlan, NoSeq, NoSeq)), below)
    [] k = "PredForeign" ->
         PredicateNode(BinaryPredicate("Equals", Column(TableB, "b", id),
                                       CorrelatedParameter(ForeignParameter)), below)
    [] k = "ProjectionParam" ->
         ProjectionNode(<<Arithmetic(ba, CorrelatedParameter(0))>>, below)
    [] k = "SortParam" -> SortNode(<<Arithmetic(ba, CorrelatedParameter(0))>>, below)
    [] k = "JoinParam" ->
         JoinNode("Inner", <<BinaryPredicate("Equals", ba, CorrelatedParameter(0))>>,
                  below, TableC)
    [] k = "JoinSelf" -> JoinNode("Cross", NoSeq, below, below)
    [] k = "JoinSelfLeft" ->
         JoinNode("Left", <<BinaryPredicate("Equals", ba, ba)>>, below, below)
    [] k = "ProjectionB" -> ProjectionNode(<<ba, bb, bb>>, below)
    [] k = "AggregateGroupB" -> AggregateNode(<<ba, bb>>, <<CountStar>>, below)
    [] k = "AliasB" -> AliasNode(<<ba, bb>>, <<"x", "y">>, below)
    [] k = "JoinLeft" -> JoinNode(l.mode, join_predicates, below, TableC)
    [] k = "JoinRight" -> JoinNode(l.mode, join_predicates, TableC, below)

BaseHeap ==
  <<StoredTableNode, StoredTableNode, StoredTableNode,
    ProjectionNode(<<Column(TableC, "a", 0)>>, TableC)>>

RECURSIVE BuildChain(_, _, _, _)
BuildChain(h, chain, i, below) ==
  IF i = 0 THEN [heap |-> h, top |-> below]
  ELSE BuildChain(Append(h, MakeLayer(chain[i], Len(h) + 1, below)), chain, i - 1,
                  Len(h) + 1)

\* the parameters of M a chain uses, in the order of their ids
UsesParameter(chain, id) ==
  \E i \in DOMAIN chain :
    \/ id = 0 /\ chain[i].kind \in {"PredEq", "PredAnd", "ProjectionParam", "SortParam",
                                     "JoinParam"}
    \/ id = 1 /\ chain[i].kind \in {"PredLt", "PredLeq", "PredAnd"}

SubqueryOf(chain, top) ==
  LET p0 == IF UsesParameter(chain, 0) THEN <<0>> ELSE NoSeq
      p1 == IF UsesParameter(chain, 1) THEN <<1>> ELSE NoSeq
      e0 == IF UsesParameter(chain, 0) THEN <<Column(TableA, "b", 0)>> ELSE NoSeq
      e1 == IF UsesParameter(chain, 1) THEN <<Column(TableA, "c", 0)>> ELSE NoSeq
  IN LQPSubquery(top, p0 \o p1, e0 \o e1)

OuterKinds ==
  {"In", "NotIn", "Exists", "NotExists", "LessThanRight", "LessThanEqualsLeft",
   "EqualsRight", "InValue", "InList", "Plain", "ExistsOfSum"}

OuterPredicate(kind, sub) ==
  LET aa == Column(TableA, "a", 0) IN
  CASE kind = "In" -> InExpr("In", aa, sub)
    [] kind = "NotIn" -> InExpr("NotIn", aa, sub)
    [] kind = "Exists" -> ExistsExpr("Exists", sub)
    [] kind = "NotExists" -> ExistsExpr("NotExists", sub)
    [] kind = "LessThanRight" -> BinaryPredicate("LessThan", aa, sub)
    [] kind = "LessThanEqualsLeft" -> BinaryPredicate("LessThanEquals", sub, aa)
    [] kind = "EqualsRight" -> BinaryPredicate("Equals", aa, sub)
    [] kind = "InValue" -> InExpr("In", Arithmetic(aa, Value(1)), sub)
    [] kind = "InList" -> InExpr("In", aa, ListExpr(<<Value(1)>>))
    [] kind = "Plain" -> BinaryPredicate("Equals", aa, Value(1))
    [] kind = "ExistsOfSum" ->
         ExistsExpr("Exists",
                    LQPSubquery(sub.ref, sub.ids,
                                [i \in DOMAIN sub.args |-> Arithmetic(sub.args[i], Value(1))]))

\* plain: Root - n - a.  stacked: Root - n - (a.b IN inner plan) - a.
\* shared: Root - Union(Sort - n, n) - a.
OuterShapes == {"plain", "stacked", "shared"}

Plan(h, n, subquery) ==
  [heap |-> Append(h, RootNode(Len(h))), root |-> Len(h) + 1, node |-> n,
   subquery |-> subquery]

\* the node n is the last of h: the Sort and the Union of the shared shape, then
\* the root
BuildTop(h, shape, subquery) ==
  IF shape = "shared"
  THEN Plan(Append(Append(h, SortNode(<<Column(TableA, "a", 0)>>, Len(h))),
                   UnionNode(Len(h) + 1, Len(h))),
            Len(h), subquery)
  ELSE Plan(h, Len(h), subquery)

BuildOuter(h, in, subquery) ==
  BuildTop(Append(h, PredicateNode(OuterPredicate(in.outer, subquery),
                                   IF in.shape = "stacked" THEN Len(h) ELSE TableA)),
           in.shape, subquery.ref)

BuildLower(sub, in) ==
  BuildOuter(IF in.shape = "stacked"
             THEN Append(sub.heap,
                         PredicateNode(InExpr("In", Column(TableA, "b", 0),
                                              LQPSubquery(InnerPlan, NoSeq, NoSeq)),
                                       TableA))
             ELSE sub.heap,
             in, SubqueryOf(in.chain, sub.top))

BuildPlan(in) == BuildLower(BuildChain(BaseHeap, in.chain, Len(in.chain), TableB), in)

\* every expression of the node is computable from the columns of its inputs
RECURSIVE Resolves(_, _)
Resolves(e, available) ==
  \/ InList(e, available)
  \/ /\ e.type # "LQPColumn"
     /\ \A i \in DOMAIN e.args : Resolves(e.args[i], available)

InputColumns(h, n) ==
  (IF h[n].left_input = 0 THEN NoSeq ELSE column_expressions(h, h[n].left_input))
    \o (IF h[n].right_input = 0 THEN NoSeq ELSE column_expressions(h, h[n].right_input))

NodeResolves(h, n) ==
  \A i \in DOMAIN h[n].node_expressions :
    Resolves(h[n].node_expressions[i], InputColumns(h, n))

\* the plan under n, the plans of its subquery expressions not included
PlanResolves(h, n) == \A m \in visit_lqp(h, n) : NodeResolves(h, m)

RECURSIVE SeqsUpTo(_, _)
SeqsUpTo(S, d) ==
  IF d = 0 THEN {NoSeq}
  ELSE LET shorter == SeqsUpTo(S, d - 1)
       IN shorter \cup {<<x>> \o t : x \in S, t \in {u \in shorter : Len(u) = d - 1}}

\* a chain of core layers, or one with a single special layer put into it
Chains(depth) ==
  SeqsUpTo(CoreLayers, depth)
    \cup {SubSeq(t, 1, i) \o <<x>> \o SubSeq(t, i + 1, Len(t)) :
            <<t, i, x>> \in {y \in SeqsUpTo(CoreLayers, depth - 1)
                                     \X (0 .. depth - 1) \X SpecialLayers :
                               y[2] <= Len(y[1])}}

\* a Cross join of a plan with itself over a correlated equality: the Predicate
\* node is shared by the two inputs of the join
SharedTail == <<Layer("JoinSelf", ""), Layer("PredEq", "")>>

\* the chains, and the shorter ones put over the shared tail
AllChains(depth) ==
  Chains(depth) \cup {c \o SharedTail : c \in Chains(depth - 1)}

PlanWellFormed(p) == PlanResolves(p.heap, p.root) /\ PlanResolves(p.heap, p.subquery)

WellFormed(in) == PlanWellFormed(BuildPlan(in))

OuterOf(shape) ==
  IF shape = "plain" THEN OuterKinds \ {"InList", "Plain"} ELSE {"In", "Exists"}

Inputs(depth) ==
  {[outer |-> o, shape |-> "plain", chain |-> NoSeq] : o \in {"InList", "Plain"}}
    \cup UNION {UNION {{[outer |-> o, shape |-> sh, chain |-> c] : o \in OuterOf(sh)} :
                         sh \in OuterShapes} :
                  c \in {d \in AllChains(depth) :
                           WellFormed([outer |-> "In", shape |-> "plain", chain |-> d])}}

(***************************************************************************)
(* The state machine                                                       *)
(***************************************************************************)
Frame(n, side) == [node |-> n, side |-> side]

\* the node a pending call is made on; the input pointer is read when the
\* call is made, 0 when the input is missing
Target(h, f) ==
  CASE f.side = "self" -> f.node
    [] f.side = "left" -> h[f.node].left_input
    [] f.side = "right" -> h[f.node].right_input

\* _apply_to_inputs skips an input that is missing
RECURSIVE Pending(_, _)
Pending(h, st) ==
  IF st = NoSeq THEN NoSeq
  ELSE IF Target(h, Head(st)) = 0 THEN Pending(h, Tail(st))
  ELSE st

\* AbstractRule::_apply_to_inputs: apply_to on the left, then the right input
apply_to_inputs(n, rest) == <<Frame(n, "left"), Frame(n, "right")>> \o rest

Running == status = "running" /\ Pending(nodes, stack) # NoSeq

Done == status = "running" /\ Pending(nodes, stack) = NoSeq

\* the node of the next call of apply_to
Current == Target(nodes, Head(Pending(nodes, stack)))

Rest == Tail(Pending(nodes, stack))

Step(kind, n, join, adapted) ==
  [kind |-> kind, node |-> n, join |-> join, adapted |-> adapted]

InitPlan(p) ==
  /\ nodes = p.heap
  /\ root = p.root
  /\ stack = <<Frame(p.root, "self")>>
  /\ status = "running"
  /\ last = Step("init", 0, 0, 0)
  /\ input_nodes = p.heap
  /\ pass = 1
  /\ first_result = NoSeq

Init == \E in \in Inputs(MaxDepth) : InitPlan(BuildPlan(in))

\* what a call of apply_to does: how it ends, the heap it leaves, the join it
\* made and the adapted subquery plan
Applied(outcome, h, join_node, adapted_lqp) ==
  [outcome |-> outcome, heap |-> h, join_node |-> join_node,
   adapted_lqp |-> adapted_lqp]

\* lines 562-564: the join is made, put in the place of the node and given the
\* adapted subquery plan as its right input
make_join(h, n, join_mode, join_predicates, adapted_lqp) ==
  Applied("rewrite",
          [lqp_replace_node(Alloc(h, JoinNode(join_mode, join_predicates, 0, 0)), n,
                            Len(h) + 1)
             EXCEPT ![Len(h) + 1].right_input = adapted_lqp],
          Len(h) + 1, adapted_lqp)

\* the join put in place before the equals predicate is looked for
apply_to_pulled_join_first(h, n, info, pull_up_info, assembled) ==
  IF assembled.join_predicates = NoSeq \/ ~assembled.found_equals_predicate
  THEN Applied("no_equals_predicate",
               make_join(pull_up_info.heap, n, info.join_mode,
                         assembled.join_predicates, pull_up_info.adapted_lqp).heap,
               0, 0)
  ELSE make_join(pull_up_info.heap, n, info.join_mode, assembled.join_predicates,
                 pull_up_info.adapted_lqp)

\* lines 538-564
apply_to_pulled(h, n, info, pull_up_info, assembled) ==
  IF assembled.join_predicates = NoSeq \/ ~assembled.found_equals_predicate
  THEN Applied("no_equals_predicate", h, 0, 0)
  ELSE make_join(pull_up_info.heap, n, info.join_mode, assembled.join_predicates,
                 pull_up_info.adapted_lqp)

\* lines 521-538
apply_to_assessed(h, n, info, usage, pullable_predicate_nodes) ==
  IF usage.not_optimizable THEN Applied("not_optimizable", h, 0, 0)
  ELSE IF Len(pullable_predicate_nodes) < usage.correlated_predicate_node_count
  THEN Applied("not_all_pullable", h, 0, 0)
  ELSE IF Len(pullable_predicate_nodes) > usage.correlated_predicate_node_count
  THEN Applied("inconsistent", h, 0, 0)
  ELSE apply_to_pulled(h, n, info,
         copy_and_adapt_lqp(h, info.subquery_expression.ref, pullable_predicate_nodes),
         assemble_join_predicates(info.base_join_predicate, pullable_predicate_nodes))

\* lines 515-529
apply_to_mapped(h, n, info, M) ==
  apply_to_assessed(h, n, info,
    assess_correlated_parameter_usage(h, info.subquery_expression.ref, M),
    find_pullable_predicate_nodes(h, info.subquery_expression.ref, M))

\* lines 507-513
apply_to_info(h, n, info) ==
  CASE info.kind = "none" -> Applied("no_candidate", h, 0, 0)
    [] info.kind = "fail" -> Applied("assert", h, 0, 0)
    [] OTHER -> apply_to_mapped(h, n, info, parameter_mapping(info.subquery_expression))

\* SubqueryToJoinRule::apply_to up to its call of _apply_to_inputs
apply_to(h, n) == apply_to_info(h, n, extract_input_lqp_info(h, n))

\* a decline: the plan is left as it is, the rule goes on in the inputs
Declined(n, rest, r) ==
  /\ nodes' = r.heap
  /\ stack' = apply_to_inputs(n, rest)
  /\ last' = Step(r.outcome, n, 0, 0)
  /\ UNCHANGED <<root, status, input_nodes, pass, first_result>>

\* lines 507-511: the node is no candidate
ApplyToNoCandidate ==
  /\ Running
  /\ apply_to(nodes, Current).outcome = "no_candidate"
  /\ Declined(Current, Rest, apply_to(nodes, Current))

\* lines 523-526: a correlated parameter is used outside of predicate nodes
ApplyToNotOptimizable ==
  /\ Running
  /\ apply_to(nodes, Current).outcome = "not_optimizable"
  /\ Declined(Current, Rest, apply_to(nodes, Current))

\* lines 530-536: some correlated predicate node cannot be pulled up
ApplyToNotAllPullable ==
  /\ Running
  /\ apply_to(nodes, Current).outcome = "not_all_pullable"
  /\ Declined(Current, Rest, apply_to(nodes, Current))

\* lines 530-536 with more pullable nodes than counted: a build without
\* DebugAssert declines
ApplyToInconsistent ==
  /\ Running
  /\ apply_to(nodes, Current).outcome = "inconsistent"
  /\ Declined(Current, Rest, apply_to(nodes, Current))

\* lines 557-560: no equals predicate for the join
ApplyToNoEqualsPredicate ==
  /\ Running
  /\ apply_to(nodes, Current).outcome = "no_equals_predicate"
  /\ Declined(Current, Rest, apply_to(nodes, Current))

\* a failed assertion ends the run
Aborted(n) ==
  /\ status' = "failed"
  /\ last' = Step("failed", n, 0, 0)
  /\ UNCHANGED <<nodes, root, stack, input_nodes, pass, first_result>>

\* line 180: the Assert of extract_input_lqp_info fails
ApplyToAssertFails ==
  /\ Running
  /\ apply_to(nodes, Current).outcome = "assert"
  /\ Aborted(Current)

\* line 532: a build with DebugAssert fails
ApplyToDebugAssertFails ==
  /\ Running
  /\ apply_to(nodes, Current).outcome = "inconsistent"
  /\ Aborted(Current)

\* the rewrite without the call of _apply_to_inputs on the join
Rewritten_without_inputs(n, rest, r) ==
  /\ r.outcome = "rewrite"
  /\ nodes' = r.heap
  /\ stack' = rest
  /\ last' = Step("rewrite", n, r.join_node, r.adapted_lqp)
  /\ UNCHANGED <<root, status, input_nodes, pass, first_result>>

\* the rewrite with the rule going on in the left input of the join only
Rewritten_into_left_input(n, rest, r) ==
  /\ r.outcome = "rewrite"
  /\ nodes' = r.heap
  /\ stack' = <<Frame(r.join_node, "left")>> \o rest
  /\ last' = Step("rewrite", n, r.join_node, r.adapted_lqp)
  /\ UNCHANGED <<root, status, input_nodes, pass, first_result>>

Rewritten(n, rest, r) ==
  /\ r.outcome = "rewrite"
  /\ nodes' = r.heap
  /\ stack' = apply_to_inputs(r.join_node, rest)
  /\ last' = Step("rewrite", n, r.join_node, r.adapted_lqp)
  /\ UNCHANGED <<root, status, input_nodes, pass, first_result>>

\* lines 562-566: the rewrite, then the rule goes on in the inputs of the join
ApplyToRewrite ==
  /\ Running
  /\ Rewritten(Current, Rest, apply_to(nodes, Current))

\* the optimizer applies the rule to the result of the first application
ApplyAgain ==
  /\ Done
  /\ pass = 1
  /\ pass' = 2
  /\ first_result' = nodes
  /\ stack' = <<Frame(root, "self")>>
  /\ last' = Step("again", 0, 0, 0)
  /\ UNCHANGED <<nodes, root, status, input_nodes>>

Next ==
  \/ ApplyToNoCandidate
  \/ ApplyToNotOptimizable
  \/ ApplyToNotAllPullable
  \/ ApplyToInconsistent
  \/ ApplyToDebugAssertFails
  \/ ApplyToNoEqualsPredicate
  \/ ApplyToAssertFails
  \/ ApplyToRewrite

Spec == Init /\ [][Next]_vars

\* two applications of the rule, one after the other
NextTwice == Next \/ ApplyAgain

SpecTwice == Init /\ [][NextTwice]_vars

(***************************************************************************)
(* What a plan evaluates to.  A table is a sequence of rows, a row a        *)
(* sequence of values in the order of the columns of the node.  No value    *)
(* of a table is NULL; a subquery used as a value yields NULL when it has   *)
(* no row, and a comparison with NULL is not true.                          *)
(***************************************************************************)
\* table a holds one row, that many times
MaxOuterRows == 2

Null == 0 - 1

ColumnValues == {0, 1}

TableRows == ColumnValues \X ColumnValues \X ColumnValues

\* tables b and c hold at most one row, so that a subquery used as a value
\* never returns more than one
Databases ==
  {<<ra, rb, rc>> :
     ra \in {[i \in 1 .. k |-> r] : k \in 1 .. MaxOuterRows, r \in TableRows},
     rb \in {NoSeq} \cup {<<r>> : r \in TableRows},
     rc \in {NoSeq, <<(<<0, 0, 0>>)>>, <<(<<1, 1, 1>>)>>}}

\* the parameters of an enclosing query, all bound to 0
NoParameters == [id \in {0, 1, ForeignParameter} |-> 0]

\* the first column equal to e, 0 if there is none
ColumnIndex(cols, e) ==
  IF InList(e, cols)
  THEN CHOOSE i \in DOMAIN cols :
         ExprEq(cols[i], e) /\ \A j \in 1 .. i - 1 : ~ExprEq(cols[j], e)
  ELSE 0

Compare(cond, x, y) ==
  IF x = Null \/ y = Null THEN FALSE
  ELSE CASE cond = "Equals" -> x = y
         [] cond = "NotEquals" -> x # y
         [] cond = "LessThan" -> x < y
         [] cond = "LessThanEquals" -> x <= y
         [] cond = "GreaterThan" -> x > y
         [] cond = "GreaterThanEquals" -> x >= y

Add(x, y) == IF x = Null \/ y = Null THEN Null ELSE x + y

FirstValue(rows) == IF rows = NoSeq THEN Null ELSE rows[1][1]

Range(sq) == {sq[i] : i \in DOMAIN sq}

RECURSIVE SetToSeq(_)
SetToSeq(S) ==
  IF S = {} THEN NoSeq
  ELSE LET x == CHOOSE y \in S : TRUE IN <<x>> \o SetToSeq(S \ {x})

RECURSIVE Eval(_, _, _, _)
RECURSIVE EvalExpr(_, _, _, _, _, _)

\* the parameters of the subquery bound to the values of its arguments
Bind(h, db, params, cols, row, sub) ==
  [id \in DOMAIN params |->
     IF \E i \in DOMAIN sub.ids : sub.ids[i] = id
     THEN EvalExpr(h, db, params, cols, row,
                   sub.args[CHOOSE i \in DOMAIN sub.ids : sub.ids[i] = id])
     ELSE params[id]]

EvalSubquery(h, db, params, cols, row, sub) ==
  Eval(h, sub.ref, db, Bind(h, db, params, cols, row, sub))

\* the values of the set of an IN
EvalSet(h, db, params, cols, row, set) ==
  IF set.type = "LQPSubquery"
  THEN {r[1] : r \in Range(EvalSubquery(h, db, params, cols, row, set))}
  ELSE {EvalExpr(h, db, params, cols, row, set.args[i]) : i \in DOMAIN set.args}

EvalExpr(h, db, params, cols, row, e) ==
  IF ColumnIndex(cols, e) # 0 THEN row[ColumnIndex(cols, e)]
  ELSE
    CASE e.type = "Value" -> e.ref
      [] e.type = "CorrelatedParameter" -> params[e.ref]
      [] e.type = "Arithmetic" ->
           Add(EvalExpr(h, db, params, cols, row, e.args[1]),
               EvalExpr(h, db, params, cols, row, e.args[2]))
      [] e.type = "Logical" ->
           /\ EvalExpr(h, db, params, cols, row, e.args[1])
           /\ EvalExpr(h, db, params, cols, row, e.args[2])
      [] e.type = "Exists" ->
           (EvalSubquery(h, db, params, cols, row, e.args[1]) # NoSeq)
             = (e.cond = "Exists")
      [] e.type = "LQPSubquery" ->
           FirstValue(EvalSubquery(h, db, params, cols, row, e))
      [] e.type = "Predicate" /\ e.cond \in {"In", "NotIn"} ->
           (EvalExpr(h, db, params, cols, row, e.args[1])
              \in EvalSet(h, db, params, cols, row, e.args[2]))
             = (e.cond = "In")
      [] e.type = "Predicate" ->
           Compare(e.cond, EvalExpr(h, db, params, cols, row, e.args[1]),
                   EvalExpr(h, db, params, cols, row, e.args[2]))

\* every predicate of es is true of the row
Satisfies(h, db, params, cols, row, es) ==
  \A i \in DOMAIN es : EvalExpr(h, db, params, cols, row, es[i]) = TRUE

RECURSIVE Filter(_, _, _, _, _, _)
Filter(h, db, params, cols, rows, es) ==
  IF rows = NoSeq THEN NoSeq
  ELSE (IF Satisfies(h, db, params, cols, Head(rows), es)
        THEN <<Head(rows)>> ELSE NoSeq)
         \o Filter(h, db, params, cols, Tail(rows), es)

EvalProjection(h, db, params, cols, rows, es) ==
  [i \in DOMAIN rows |->
     [k \in DOMAIN es |-> EvalExpr(h, db, params, cols, rows[i], es[k])]]

\* one row for each group: the values of the group, then the count of its
\* rows for each aggregate
EvalGroups(keys, groups, aggregate_count) ==
  [i \in DOMAIN groups |->
     groups[i] \o [k \in 1 .. aggregate_count |->
                     Cardinality({j \in DOMAIN keys : keys[j] = groups[i]})]]

\* without group-by expressions there is one group, rows or no rows
EvalAggregate(keys, group_by_count, aggregate_count) ==
  EvalGroups(keys,
             SetToSeq(Range(keys) \cup (IF group_by_count = 0 THEN {NoSeq} ELSE {})),
             aggregate_count)

RECURSIVE Matches(_, _, _, _, _, _, _)
\* the rows of left_row joined with the rows of right_rows that satisfy es
Matches(h, db, params, cols, left_row, right_rows, es) ==
  IF right_rows = NoSeq THEN NoSeq
  ELSE (IF Satisfies(h, db, params, cols, left_row \o Head(right_rows), es)
        THEN <<left_row \o Head(right_rows)>> ELSE NoSeq)
         \o Matches(h, db, params, cols, left_row, Tail(right_rows), es)

RECURSIVE EvalJoin(_, _, _, _, _, _, _, _)
EvalJoin(h, db, params, cols, mode, left_rows, right_rows, es) ==
  IF left_rows = NoSeq THEN NoSeq
  ELSE (CASE mode \in {"Inner", "Cross"} ->
               Matches(h, db, params, cols, Head(left_rows), right_rows, es)
          [] mode = "Semi" ->
               IF Matches(h, db, params, cols, Head(left_rows), right_rows, es) # NoSeq
               THEN <<Head(left_rows)>> ELSE NoSeq
          [] mode \in {"AntiNullAsTrue", "AntiNullAsFalse"} ->
               IF Matches(h, db, params, cols, Head(left_rows), right_rows, es) = NoSeq
               THEN <<Head(left_rows)>> ELSE NoSeq)
         \o EvalJoin(h, db, params, cols, mode, Tail(left_rows), right_rows, es)

Eval(h, n, db, params) ==
  CASE h[n].type = "StoredTable" -> db[n]
    [] h[n].type = "Predicate" ->
         Filter(h, db, params, column_expressions(h, h[n].left_input),
                Eval(h, h[n].left_input, db, params), h[n].node_expressions)
    [] h[n].type \in {"Projection", "Alias"} ->
         EvalProjection(h, db, params, column_expressions(h, h[n].left_input),
                        Eval(h, h[n].left_input, db, params), h[n].node_expressions)
    [] h[n].type = "Aggregate" ->
         EvalAggregate(
           EvalProjection(h, db, params, column_expressions(h, h[n].left_input),
                          Eval(h, h[n].left_input, db, params),
                          SubSeq(h[n].node_expressions, 1,
                                 h[n].aggregate_expressions_begin_idx)),
           h[n].aggregate_expressions_begin_idx,
           Len(h[n].node_expressions) - h[n].aggregate_expressions_begin_idx)
    [] h[n].type = "Join" ->
         EvalJoin(h, db, params, InputColumns(h, n), h[n].join_mode,
                  Eval(h, h[n].left_input, db, params),
                  Eval(h, h[n].right_input, db, params), h[n].node_expressions)
    [] OTHER -> Eval(h, h[n].left_input, db, params)

\* the plans the evaluation covers: no Limit, no Union, no outer join
Evaluable(h) ==
  \A k \in DOMAIN h :
    /\ h[k].type \notin {"Limit", "Union"}
    /\ h[k].type = "Join" => h[k].join_mode \notin {"Left", "Right", "FullOuter"}

Occurrences(rows, r) == Cardinality({i \in DOMAIN rows : rows[i] = r})

SameRows(rows1, rows2) ==
  \A r \in Range(rows1) \cup Range(rows2) :
    Occurrences(rows1, r) = Occurrences(rows2, r)

(***************************************************************************)
(* Properties                                                              *)
(***************************************************************************)
\* the nodes that have n as an input
Consumers(h, n) == {k \in DOMAIN h : h[k].left_input = n \/ h[k].right_input = n}

SemiAndAntiModes == {"Semi", "AntiNullAsFalse", "AntiNullAsTrue"}

DeclineKinds ==
  {"no_candidate", "not_optimizable", "not_all_pullable", "inconsistent",
   "no_equals_predicate"}

\* the step changes the plan by putting the one new Join `j` in the place of
\* the one Predicate `n`
ReplacesPredicateByJoin(n, j) ==
  /\ nodes[n].type = "Predicate"
  /\ visit_lqp(nodes, root) \ visit_lqp(nodes', root) = {n}
  /\ j \notin DOMAIN nodes
  /\ nodes'[j].type = "Join"
  /\ (visit_lqp(nodes', root) \ visit_lqp(nodes, root))
       \ visit_lqp(nodes', nodes'[j].right_input) = {j}
  /\ Consumers(nodes, n) # {}
  /\ Consumers(nodes', j) = Consumers(nodes, n)
  /\ Consumers(nodes', n) = {}
  /\ nodes'[j].left_input = nodes[n].left_input

FirstPredicateIsEquality(q) ==
  /\ q.join_mode \in SemiAndAntiModes
  /\ q.node_expressions # NoSeq
  /\ q.node_expressions[1].type = "Predicate"
  /\ q.node_expressions[1].cond = "Equals"

\* C1: every step of the rule that changes the plan replaces exactly one
\* Predicate node of the plan by exactly one new Join node, and that Join has a
\* semi or anti mode, a non-empty predicate list and an equality as its first
\* predicate.
C1_RewriteMakesOneEquiJoin ==
  [][nodes' # nodes =>
       /\ last'.kind = "rewrite"
       /\ ReplacesPredicateByJoin(last'.node, last'.join)
       /\ FirstPredicateIsEquality(nodes'[last'.join])]_vars

\* a join made from a base predicate that is no equality and a pulled equality
C1_Witness ==
  /\ last.kind = "rewrite"
  /\ Len(nodes[last.join].node_expressions) >= 2
  /\ input_nodes[last.node].node_expressions[1].cond = "LessThan"
  /\ nodes[last.join].node_expressions[1].cond = "Equals"

\* C2 as claimed: when the rule is through and has changed the plan, the plan
\* evaluates to the same multiset of rows as the input plan, on every database.
C2_SameRowsOnEveryDatabase ==
  (Done /\ nodes # input_nodes /\ Evaluable(input_nodes) /\ Evaluable(nodes)) =>
    \A db \in Databases :
      SameRows(Eval(input_nodes, root, db, NoParameters),
               Eval(nodes, root, db, NoParameters))

\* C3: at every point of the run, every column an expression of a node of the
\* plan refers to is among the columns the inputs of that node produce.
C3_ColumnClosure == PlanResolves(nodes, root)

\* the run is over and the plan holds a projection that got a required column
C3_Witness ==
  /\ Done
  /\ \E k \in visit_lqp(nodes, root) :
       /\ k > Len(input_nodes)
       /\ nodes[k].type = "Projection"
       /\ Len(nodes[k].node_expressions) = 2

\* C4: a step in which the rule declines at a Predicate node leaves every node
\* as it is (the node, its predicate, its inputs, its consumers, the subquery
\* plan), and the rule goes on with the inputs of the node and nothing else.
C4_DeclineStability ==
  [][(last'.kind \in DeclineKinds /\ nodes[last'.node].type = "Predicate") =>
       /\ nodes' = nodes
       /\ stack' = <<Frame(last'.node, "left"), Frame(last'.node, "right")>>
                     \o Tail(Pending(nodes, stack))]_vars

\* a decline after the adapted copy was built
C4_Witness ==
  /\ last.kind = "no_equals_predicate"
  /\ nodes[last.node].type = "Predicate"
  /\ nodes = input_nodes

\* C5: when the rule is applied to the result of a first application, the
\* plan stays, node by node, what the first application left.
C5_Idempotence == pass = 2 => nodes = first_result

\* the second application is over, on a plan the first one had rewritten
C5_Witness ==
  /\ pass = 2
  /\ Done
  /\ nodes # input_nodes
  /\ last.kind = "no_candidate"

\* the nodes m is an input of in h, one entry for each input slot
Parents(h, m) ==
  {<<k, "left">> : k \in {x \in DOMAIN h : h[x].left_input = m}}
    \cup {<<k, "right">> : k \in {x \in DOMAIN h : h[x].right_input = m}}

\* the node was rewritten: it is untied from its inputs
WasRewritten(k) == input_nodes[k].left_input # 0 /\ nodes[k].left_input = 0

\* C6 as claimed: a node of the input plan with more than one parent stays
\* the same unchanged node, and each of its parents that was not rewritten
\* still has it as its input.
C6_SharedNodesUntouched ==
  \A m \in DOMAIN input_nodes :
    Cardinality(Parents(input_nodes, m)) > 1 =>
      \A slot \in Parents(input_nodes, m) :
        ~WasRewritten(slot[1]) =>
          /\ slot \in Parents(nodes, m)
          /\ nodes[m] = input_nodes[m]

\* C6 as amended: a step changes a node that was there before only in a
\* rewrite, and then only so: the rewritten Predicate loses its inputs, and a
\* node that had it as an input has the new Join there; every other node and
\* every other field stays.
C6_OnlyConsumersRedirected ==
  [][\A k \in DOMAIN nodes :
       nodes'[k] =
         IF last'.kind # "rewrite" THEN nodes[k]
         ELSE IF k = last'.node
         THEN [nodes[k] EXCEPT !.left_input = 0, !.right_input = 0]
         ELSE [nodes[k] EXCEPT
                 !.left_input = IF @ = last'.node THEN last'.join ELSE @,
                 !.right_input = IF @ = last'.node THEN last'.join ELSE @]]_vars

\* a rewritten Predicate that had two parents, both now on the Join
C6_Witness ==
  /\ last.kind = "rewrite"
  /\ Cardinality(Parents(input_nodes, last.node)) = 2
  /\ Cardinality(Parents(nodes, last.join)) = 2
  /\ Len(nodes[last.join].node_expressions) = 2

\* the plan under n as a value: the identities of the nodes and of the
\* expression objects left out
RECURSIVE Tree(_, _)
Tree(h, n) ==
  IF n = 0 THEN NoSeq
  ELSE <<h[n].type, h[n].join_mode, NormAll(h[n].node_expressions),
         h[n].aggregate_expressions_begin_idx, h[n].aliases,
         IF h[n].type = "StoredTable" THEN <<n>> ELSE NoSeq,
         Tree(h, h[n].left_input), Tree(h, h[n].right_input)>>

\* value (NOT) IN subquery, the subquery uncorrelated and of one column, the
\* value a column of the left input
UncorrelatedIn(h, n) ==
  /\ h[n].type = "Predicate"
  /\ h[n].node_expressions[1].type = "Predicate"
  /\ h[n].node_expressions[1].cond \in {"In", "NotIn"}
  /\ h[n].node_expressions[1].args[2].type = "LQPSubquery"
  /\ ~is_correlated(h[n].node_expressions[1].args[2])
  /\ Len(column_expressions(h, h[n].node_expressions[1].args[2].ref)) = 1
  /\ find_column_id(h, h[n].left_input, h[n].node_expressions[1].args[1])

CorrelatedNotIn(h, n) ==
  /\ h[n].type = "Predicate"
  /\ h[n].node_expressions[1].type = "Predicate"
  /\ h[n].node_expressions[1].cond = "NotIn"
  /\ h[n].node_expressions[1].args[2].type = "LQPSubquery"
  /\ is_correlated(h[n].node_expressions[1].args[2])

\* C8: the call of apply_to on value NOT IN subquery with a correlated
\* subquery changes no node: the node is no candidate.
C8_CorrelatedNotInKept ==
  [][(Running /\ CorrelatedNotIn(nodes, Current)) =>
       /\ nodes' = nodes
       /\ last'.kind = "no_candidate"
       /\ last'.node = Current]_vars

\* a correlated NOT IN was passed over, its correlated predicate a less-than
C8_Witness ==
  /\ last.kind = "no_candidate"
  /\ CorrelatedNotIn(nodes, last.node)
  /\ \E k \in visit_lqp(nodes, nodes[last.node].node_expressions[1].args[2].ref) :
       /\ nodes[k].type = "Predicate"
       /\ nodes[k].node_expressions[1].cond = "LessThan"
  /\ nodes = input_nodes

\* a.a IN (SELECT b.a FROM b WHERE b.b = $0), $0 bound to a.b
SimpleCorrelatedIn ==
  [outer |-> "In", shape |-> "plain",
   chain |-> <<Layer("Projection", ""), Layer("PredEq", "")>>]

ColumnEquals(l, r) == Norm(BinaryPredicate("Equals", l, r))

C10_InnerJoinAsInTests ==
  (Done /\ input_nodes = BuildPlan(SimpleCorrelatedIn).heap) =>
    Tree(nodes, nodes[root].left_input) =
      Tree(<<StoredTableNode, StoredTableNode,
             JoinNode("Inner",
                      <<BinaryPredicate("Equals", Column(TableA, "a", 0),
                                        Column(TableB, "a", 0))>>, TableA, TableB),
             PredicateNode(BinaryPredicate("Equals", Column(TableB, "b", 0),
                                           Column(TableA, "b", 0)), 3),
             ProjectionNode(<<Column(TableA, "a", 0), Column(TableA, "b", 0)>>, 4),
             AggregateNode(<<Column(TableA, "a", 0), Column(TableA, "b", 0)>>,
                           NoSeq, 5)>>, 6)

\* a.a IN (SELECT b.a FROM b WHERE b.b = $0 AND b.c < $1), $0 bound to a.b and
\* $1 to a.c, the conjunction split into two Predicate nodes, the equality on top
DoubleCorrelatedIn ==
  [outer |-> "In", shape |-> "plain",
   chain |-> <<Layer("Projection", ""), Layer("PredEq", ""), Layer("PredLt", "")>>]

\* the same with the range predicate on top
DoubleCorrelatedInRangeFirst ==
  [outer |-> "In", shape |-> "plain",
   chain |-> <<Layer("Projection", ""), Layer("PredLt", ""), Layer("PredEq", "")>>]

ColumnCompares(cond, l, r) == Norm(BinaryPredicate(cond, l, r))

\* the join the finished plan has right under its root
TopJoin == nodes[nodes[root].left_input]

\* the columns the right input of that join produces
TopJoinRightColumns == NormAll(column_expressions(nodes, TopJoin.right_input))

\* C11 as claimed: for the double-correlated IN the join has the predicates
\* [a.b = b.b, a.c < b.c, a.a = b.a] in this order, and the root of the adapted
\* subquery plan produces b.b and b.c in addition to b.a.
C11_PulledEqualityLeads ==
  (Done /\ input_nodes = BuildPlan(DoubleCorrelatedIn).heap) =>
    /\ TopJoin.type = "Join"
    /\ NormAll(TopJoin.node_expressions) =
         <<ColumnEquals(Column(TableA, "b", 0), Column(TableB, "b", 0)),
           ColumnCompares("LessThan", Column(TableA, "c", 0), Column(TableB, "c", 0)),
           ColumnEquals(Column(TableA, "a", 0), Column(TableB, "a", 0))>>
    /\ Range(TopJoinRightColumns) =
         {Norm(Column(TableB, c, 0)) : c \in {"a", "b", "c"}}

\* C11 as amended: the join is a Semi join over a whose predicates are the base
\* predicate a.a = b.a, then a.b = b.b and a.c > b.c in the order of their
\* Predicate nodes from the root of the subquery plan downwards; its right
\* input is a Projection right over b that produces b.a first, then b.b and b.c.
C11_BaseEqualityLeads ==
  /\ (Done /\ input_nodes = BuildPlan(DoubleCorrelatedIn).heap) =>
       /\ TopJoin.type = "Join"
       /\ NormAll(TopJoin.node_expressions) =
            <<ColumnEquals(Column(TableA, "a", 0), Column(TableB, "a", 0)),
              ColumnEquals(Column(TableA, "b", 0), Column(TableB, "b", 0)),
              ColumnCompares("GreaterThan", Column(TableA, "c", 0),
                             Column(TableB, "c", 0))>>
  /\ (Done /\ input_nodes = BuildPlan(DoubleCorrelatedInRangeFirst).heap) =>
       /\ TopJoin.type = "Join"
       /\ NormAll(TopJoin.node_expressions) =
            <<ColumnEquals(Column(TableA, "a", 0), Column(TableB, "a", 0)),
              ColumnCompares("GreaterThan", Column(TableA, "c", 0),
                             Column(TableB, "c", 0)),
              ColumnEquals(Column(TableA, "b", 0), Column(TableB, "b", 0))>>
  /\ (/\ Done
      /\ input_nodes \in {BuildPlan(DoubleCorrelatedIn).heap,
                          BuildPlan(DoubleCorrelatedInRangeFirst).heap}) =>
       /\ TopJoin.join_mode = "Semi"
       /\ TopJoin.left_input = TableA
       /\ nodes[TopJoin.right_input].type = "Projection"
       /\ nodes[TopJoin.right_input].left_input = TableB
       /\ Len(TopJoinRightColumns) = 3
       /\ TopJoinRightColumns[1] = Norm(Column(TableB, "a", 0))
       /\ Range(TopJoinRightColumns) =
            {Norm(Column(TableB, c, 0)) : c \in {"a", "b", "c"}}

\* the rule is through with the double-correlated IN and has made the join
C11_Witness ==
  /\ input_nodes = BuildPlan(DoubleCorrelatedIn).heap
  /\ Done
  /\ TopJoin.type = "Join"
  /\ Len(TopJoin.node_expressions) = 3

\* a.a IN (SELECT b.a FROM b WHERE b.a IN (SELECT c.a FROM c))
NestedUncorrelatedIn ==
  [outer |-> "In", shape |-> "plain",
   chain |-> <<Layer("Projection", ""), Layer("PredIn", "")>>]

\* some node of the plan under n has a (NOT) IN as its predicate
HasInPredicate(h, n) ==
  \E k \in visit_lqp(h, n) :
    /\ h[k].type = "Predicate"
    /\ h[k].node_expressions[1].type = "Predicate"
    /\ h[k].node_expressions[1].cond \in {"In", "NotIn"}

\* C12: for the nested uncorrelated IN the one application of the rule ends
\* with Join(Semi, [a.a = b.a], a, Projection([b.a], Join(Semi, [b.a = c.a], b,
\* Projection([c.a], c)))) under the root, and no IN predicate is left.
C12_NestedInOnePass ==
  (Done /\ input_nodes = BuildPlan(NestedUncorrelatedIn).heap) =>
    /\ Tree(nodes, nodes[root].left_input) =
         Tree(<<StoredTableNode, StoredTableNode, StoredTableNode,
                ProjectionNode(<<Column(TableC, "a", 0)>>, TableC),
                JoinNode("Semi",
                         <<BinaryPredicate("Equals", Column(TableB, "a", 0),
                                           Column(TableC, "a", 0))>>, TableB, 4),
                ProjectionNode(<<Column(TableB, "a", 0)>>, 5),
                JoinNode("Semi",
                         <<BinaryPredicate("Equals", Column(TableA, "a", 0),
                                           Column(TableB, "a", 0))>>, TableA, 6)>>, 7)
    /\ ~HasInPredicate(nodes, root)

\* the rule is through with the nested IN: the join made second is in the
\* adapted copy of the subquery plan of the first
C12_Witness ==
  /\ input_nodes = BuildPlan(NestedUncorrelatedIn).heap
  /\ Done
  /\ \E k \in visit_lqp(nodes, TopJoin.right_input) :
       k > Len(input_nodes) /\ nodes[k].type = "Join"

\* the predicate is value (NOT) IN subquery or a comparison with a subquery
\* as one operand
ComparesWithSubquery(p) ==
  /\ p.type = "Predicate"
  /\ \/ p.cond \in {"In", "NotIn"} /\ p.args[2].type = "LQPSubquery"
     \/ /\ p.cond \in ComparisonConditions
        /\ \E i \in {1, 2} : p.args[i].type = "LQPSubquery"

\* the subquery of such a predicate and the operand it is compared with
SubqueryOperand(p) == IF p.args[1].type = "LQPSubquery" THEN p.args[1] ELSE p.args[2]

ComparedOperand(p) == IF p.args[1].type = "LQPSubquery" THEN p.args[2] ELSE p.args[1]

\* a Predicate node that compares with a subquery whose plan does not produce
\* exactly one column
MultiColumnSubquery(h, n) ==
  /\ h[n].type = "Predicate"
  /\ ComparesWithSubquery(h[n].node_expressions[1])
  /\ Len(column_expressions(h, SubqueryOperand(h[n].node_expressions[1]).ref)) # 1

\* C13 as claimed: the call of apply_to on such a node declines: the plan stays
\* as it is, the rule goes on with the inputs of the node and does not abort.
C13_MultiColumnDeclines ==
  [][(Running /\ MultiColumnSubquery(nodes, Current)) =>
       /\ nodes' = nodes
       /\ status' = "running"
       /\ last'.kind \in DeclineKinds
       /\ stack' = apply_to_inputs(Current, Rest)]_vars

\* C13 as amended: the call of apply_to on such a node never changes the plan.
\* When the compared operand is a column of the left input of the node, and
\* the predicate is not a NOT IN with a correlated subquery, the assertion
\* fails and the run is over; otherwise the node is no candidate and the rule
\* goes on with its inputs.
C13_MultiColumnAborts ==
  [][(Running /\ MultiColumnSubquery(nodes, Current)) =>
       /\ nodes' = nodes
       /\ IF /\ find_column_id(nodes, nodes[Current].left_input,
                               ComparedOperand(nodes[Current].node_expressions[1]))
             /\ ~CorrelatedNotIn(nodes, Current)
          THEN /\ status' = "failed"
               /\ last' = Step("failed", Current, 0, 0)
               /\ stack' = stack
          ELSE /\ status' = "running"
               /\ last' = Step("no_candidate", Current, 0, 0)
               /\ stack' = apply_to_inputs(Current, Rest)]_vars

\* the run ended at a comparison whose left operand is a subquery of more than
\* one column
C13_Witness ==
  /\ status = "failed"
  /\ MultiColumnSubquery(nodes, last.node)
  /\ nodes[last.node].node_expressions[1].cond = "LessThanEquals"
  /\ Len(column_expressions(nodes, nodes[last.node].node_expressions[1].args[1].ref)) > 1

\* the subquery of the predicate of a candidate node
SubqueryOf_predicate(p) == IF p.type = "Exists" THEN p.args[1] ELSE SubqueryOperand(p)

\* the classifier takes the node as a candidate
IsCandidate(h, n) == extract_input_lqp_info(h, n).kind = "info"

\* the Predicate nodes of the plan under n that compare with a parameter of
\* M, with one of the conditions conds, and lie beneath an Aggregate node
CorrelatedBelowAggregate(h, n, M, conds) ==
  {k \in visit_lqp(h, n) :
     /\ h[k].type = "Predicate"
     /\ uses_correlated_parameters(h, k, M)
     /\ h[k].node_expressions[1].type = "Predicate"
     /\ h[k].node_expressions[1].cond \in conds
     /\ \E g \in visit_lqp(h, n) :
          h[g].type = "Aggregate" /\ k \in visit_lqp(h, h[g].left_input)}

\* the nodes from n downwards over the left inputs
RECURSIVE LeftPath(_, _)
LeftPath(h, n) == IF n = 0 THEN NoSeq ELSE <<n>> \o LeftPath(h, h[n].left_input)

\* the Aggregate nodes among them, top first
AggregatesOf(h, path) == SelectSeq(path, LAMBDA k : h[k].type = "Aggregate")

GroupByOf(q) == SubSeq(q.node_expressions, 1, q.aggregate_expressions_begin_idx)

\* the column operand of a comparison with a parameter
InnerColumn(p) == IF p.args[1].type = "CorrelatedParameter" THEN p.args[2] ELSE p.args[1]

\* C14 as claimed: the call of apply_to on a candidate whose subquery plan has,
\* beneath an Aggregate, a Predicate node comparing with a bound parameter by
\* another condition than equality declines and leaves the plan as it is; and
\* when a candidate is rewritten, each correlated equality Predicate beneath an
\* Aggregate is gone from the adapted plan and the copy of each Aggregate above
\* it has its column among the group-by expressions.
C14_EqualityOnlyBelowAggregates ==
  [][(Running /\ IsCandidate(nodes, Current)) =>
       LET sub == SubqueryOf_predicate(nodes[Current].node_expressions[1])
           M == parameter_mapping(sub)
           originals == AggregatesOf(nodes, LeftPath(nodes, sub.ref))
           copies == AggregatesOf(nodes', LeftPath(nodes', last'.adapted))
       IN
       /\ CorrelatedBelowAggregate(nodes, sub.ref, M,
                                   ComparisonConditions \ {"Equals"}) # {} =>
            /\ last'.kind \in DeclineKinds
            /\ nodes' = nodes
       /\ last'.kind = "rewrite" =>
            \A k \in CorrelatedBelowAggregate(nodes, sub.ref, M, {"Equals"}) :
              /\ k \notin visit_lqp(nodes', last'.adapted)
              /\ Len(copies) = Len(originals)
              /\ \A i \in DOMAIN originals :
                   k \in visit_lqp(nodes, originals[i]) =>
                     InList(InnerColumn(nodes[k].node_expressions[1]),
                            GroupByOf(nodes'[copies[i]]))]_vars

\* a Predicate node with a subquery (compared with, or of an EXISTS) whose plan
\* has a node that is no Predicate node and uses a parameter the subquery binds
CorrelatedOutsidePredicates(h, n) ==
  /\ h[n].type = "Predicate"
  /\ \/ ComparesWithSubquery(h[n].node_expressions[1])
     \/ /\ h[n].node_expressions[1].type = "Exists"
        /\ h[n].node_expressions[1].args[1].type = "LQPSubquery"
  /\ \E k \in visit_lqp(h, SubqueryOf_predicate(h[n].node_expressions[1]).ref) :
       /\ h[k].type # "Predicate"
       /\ \E i \in DOMAIN h[k].node_expressions :
            expression_uses_parameters(
              h[k].node_expressions[i],
              parameter_mapping(SubqueryOf_predicate(h[n].node_expressions[1])))

\* C15: the call of apply_to on such a node never rewrites it: the plan stays
\* as it is, and a candidate is declined as not optimizable.
C15_CorrelationOutsidePredicates ==
  [][(Running /\ CorrelatedOutsidePredicates(nodes, Current)) =>
       /\ nodes' = nodes
       /\ last'.kind # "rewrite"
       /\ IsCandidate(nodes, Current) =>
            /\ last' = Step("not_optimizable", Current, 0, 0)
            /\ stack' = apply_to_inputs(Current, Rest)]_vars

\* declined as not optimizable: the subquery plan has a Join whose predicate
\* uses the parameter, and a correlated Predicate node that could be pulled
C15_Witness ==
  /\ last.kind = "not_optimizable"
  /\ CorrelatedOutsidePredicates(nodes, last.node)
  /\ LET sub == SubqueryOf_predicate(nodes[last.node].node_expressions[1]) IN
     /\ find_pullable_predicate_nodes(nodes, sub.ref, parameter_mapping(sub)) # NoSeq
     /\ \E k \in visit_lqp(nodes, sub.ref) :
          nodes[k].type = "Join" /\ uses_correlated_parameters(nodes, k, parameter_mapping(sub))

\* the nodes of the plan under n that are reached from n over the inputs the
\* claim allows: both of an Inner or Cross join, the left of a Left, Semi or
\* Anti join, the right of a Right join, the left of a Predicate, Aggregate,
\* Alias, Projection, Sort or Validate node, none of any other node
RECURSIVE SafelyReached(_, _)
SafelyReached(h, n) ==
  IF n = 0 THEN {}
  ELSE {n}
    \cup (IF \/ h[n].type \in {"Predicate", "Aggregate", "Alias", "Projection", "Sort",
                               "Validate"}
             \/ /\ h[n].type = "Join"
                /\ h[n].join_mode \in {"Inner", "Cross", "Left", "Semi",
                                       "AntiNullAsFalse", "AntiNullAsTrue"}
          THEN SafelyReached(h, h[n].left_input) ELSE {})
    \cup (IF h[n].type = "Join" /\ h[n].join_mode \in {"Inner", "Cross", "Right"}
          THEN SafelyReached(h, h[n].right_input) ELSE {})

\* the Predicate nodes of the plan under n that use a parameter of M
CorrelatedPredicates(h, n, M) ==
  {k \in visit_lqp(h, n) : h[k].type = "Predicate" /\ uses_correlated_parameters(h, k, M)}

\* the predicate is a single comparison of a parameter of M with a column
SingleComparison(p, M) ==
  /\ p.type = "Predicate"
  /\ p.cond \in ComparisonConditions
  /\ \E i \in {1, 2} :
       /\ p.args[i].type = "CorrelatedParameter"
       /\ p.args[i].ref \in DOMAIN M
       /\ p.args[3 - i].type = "LQPColumn"

\* C16 as claimed: a rewrite happens only when the finder has found every
\* Predicate node of the subquery plan that uses a bound parameter; and the
\* call of apply_to on a candidate declines, the plan left as it is, when such
\* a Predicate node is not safely reached or is no single comparison of a
\* bound parameter with a column.
C16_AllOrNothing ==
  [][(Running /\ IsCandidate(nodes, Current)) =>
       LET sub == SubqueryOf_predicate(nodes[Current].node_expressions[1])
           M == parameter_mapping(sub)
           found == find_pullable_predicate_nodes(nodes, sub.ref, M)
       IN
       /\ last'.kind = "rewrite" =>
            \A k \in CorrelatedPredicates(nodes, sub.ref, M) :
              \E i \in DOMAIN found : found[i].first = k
       /\ (\E k \in CorrelatedPredicates(nodes, sub.ref, M) :
             \/ k \notin SafelyReached(nodes, sub.ref)
             \/ ~SingleComparison(nodes[k].node_expressions[1], M)) =>
            /\ last'.kind \in DeclineKinds
            /\ nodes' = nodes]_vars

\* a Predicate node whose predicate is (NOT) EXISTS of a subquery
ExistsSubquery(h, n) ==
  /\ h[n].type = "Predicate"
  /\ h[n].node_expressions[1].type = "Exists"
  /\ h[n].node_expressions[1].args[1].type = "LQPSubquery"

\* C17: for a Predicate node with (NOT) EXISTS of a subquery the classifier
\* gives a candidate exactly when the subquery has parameters, then with the
\* join mode Semi for EXISTS and AntiNullAsFalse for NOT EXISTS and without a
\* base predicate; the call of apply_to on an uncorrelated one changes nothing,
\* and the predicates of a join made for a correlated one are the predicates
\* the finder extracted, in number and in value.
C17_ExistsClassification ==
  [][(Running /\ ExistsSubquery(nodes, Current)) =>
       LET p == nodes[Current].node_expressions[1]
           info == extract_input_lqp_info(nodes, Current)
           found == find_pullable_predicate_nodes(nodes, p.args[1].ref,
                                                  parameter_mapping(p.args[1]))
       IN
       /\ (info.kind = "info") = (Len(p.args[1].args) > 0)
       /\ info.kind = "info" =>
            /\ info.subquery_expression = p.args[1]
            /\ info.join_mode =
                 (IF p.cond = "Exists" THEN "Semi" ELSE "AntiNullAsFalse")
            /\ info.base_join_predicate = NoExpr
       /\ Len(p.args[1].args) = 0 =>
            /\ nodes' = nodes
            /\ last' = Step("no_candidate", Current, 0, 0)
       /\ last'.kind = "rewrite" =>
            /\ nodes'[last'.join].join_mode =
                 (IF p.cond = "Exists" THEN "Semi" ELSE "AntiNullAsFalse")
            /\ Len(nodes'[last'.join].node_expressions) = Len(found)
            /\ \A i \in DOMAIN found :
                 InList(found[i].second, nodes'[last'.join].node_expressions)]_vars

\* a correlated NOT EXISTS made an anti join of two pulled predicates
C17_Witness ==
  /\ last.kind = "rewrite"
  /\ input_nodes[last.node].node_expressions[1].type = "Exists"
  /\ input_nodes[last.node].node_expressions[1].cond = "NotExists"
  /\ nodes[last.join].join_mode = "AntiNullAsFalse"
  /\ Len(nodes[last.join].node_expressions) = 2

\* the condition that holds of (y, x) exactly when cond holds of (x, y)
MirrorCondition(cond) ==
  CASE cond = "LessThan" -> "GreaterThan"
    [] cond = "LessThanEquals" -> "GreaterThanEquals"
    [] cond = "GreaterThan" -> "LessThan"
    [] cond = "GreaterThanEquals" -> "LessThanEquals"
    [] cond = "Equals" -> "Equals"
    [] cond = "NotEquals" -> "NotEquals"

\* a Predicate node whose predicate is one of the six comparisons
ComparisonNode(h, n) ==
  /\ h[n].type = "Predicate"
  /\ h[n].node_expressions[1].type = "Predicate"
  /\ h[n].node_expressions[1].cond \in ComparisonConditions

\* operands to compare a subquery with: the one of the node, an expression
\* over it that is no column, a column of another table
OperandsLike(x) == {x, Arithmetic(x, Value(1)), Column(TableC, "a", 0)}

\* C18: when apply_to is called on a comparison node without a subquery
\* operand the classifier returns none.  When it is called on a comparison of
\* x with a subquery S of one column c, then for each of the six conditions op
\* and each operand x the classifier returns, if x is a column of the left
\* input, Semi with S and the base predicate x op c for `x op S` and
\* x mirror(op) c for `S op x`, and none if x is no column of the left input.
C18_ScalarComparisonClassification ==
  (Running /\ ComparisonNode(nodes, Current)) =>
    LET p == nodes[Current].node_expressions[1]
        left_input == nodes[Current].left_input
        S == SubqueryOperand(p)
    IN
    IF ~ComparesWithSubquery(p) THEN extract_input_lqp_info(nodes, Current) = NoInfo
    ELSE Len(column_expressions(nodes, S.ref)) = 1 =>
      \A op \in ComparisonConditions, x \in OperandsLike(ComparedOperand(p)) :
        IF InList(x, column_expressions(nodes, left_input))
        THEN /\ predicate_info(nodes, left_input, BinaryPredicate(op, x, S)) =
                  InputLQPInfo("info", S, "Semi",
                    BinaryPredicate(op, x, column_expressions(nodes, S.ref)[1]))
             /\ predicate_info(nodes, left_input, BinaryPredicate(op, S, x)) =
                  InputLQPInfo("info", S, "Semi",
                    BinaryPredicate(MirrorCondition(op), x,
                                    column_expressions(nodes, S.ref)[1]))
        ELSE /\ predicate_info(nodes, left_input, BinaryPredicate(op, x, S)) = NoInfo
             /\ predicate_info(nodes, left_input, BinaryPredicate(op, S, x)) = NoInfo

\* subquery <= a.a was rewritten: the join has the base predicate a.a >= c
C18_Witness ==
  /\ last.kind = "rewrite"
  /\ input_nodes[last.node].node_expressions[1].cond = "LessThanEquals"
  /\ input_nodes[last.node].node_expressions[1].args[1].type = "LQPSubquery"
  /\ \E i \in DOMAIN nodes[last.join].node_expressions :
       /\ nodes[last.join].node_expressions[i].cond = "GreaterThanEquals"
       /\ ExprEq(nodes[last.join].node_expressions[i].args[1], Column(TableA, "a", 0))

\* the heap with the predicate of node k made `l op r`
WithPredicate(h, k, op, l, r) ==
  [h EXCEPT ![k].node_expressions = <<BinaryPredicate(op, l, r)>>]

\* the values an operand may have
OperandValues == {Null, 0, 1, 2}

\* C19: when apply_to is called on a candidate, then for each Predicate node k
\* of the subquery plan that compares a bound parameter $p with a column col,
\* and for each of the six conditions op: the predicate extracted from
\* `$p op col` is M[p] op col and the one extracted from `col op $p` is
\* M[p] mirror(op) col (nothing is extracted beneath an Aggregate unless op is
\* the equality); and, for all values of M[p] and col, the extracted predicate
\* is true exactly when the predicate of the node is.
C19_ExtractedPredicateOrientation ==
  (Running /\ IsCandidate(nodes, Current)) =>
    LET sub == SubqueryOf_predicate(nodes[Current].node_expressions[1])
        M == parameter_mapping(sub)
    IN
    \A k \in {j \in CorrelatedPredicates(nodes, sub.ref, M) :
                SingleComparison(nodes[j].node_expressions[1], M)} :
      LET p == nodes[k].node_expressions[1]
          param == IF p.args[1].type = "CorrelatedParameter" THEN p.args[1] ELSE p.args[2]
          col == InnerColumn(p)
      IN
      \A op \in ComparisonConditions, below \in BOOLEAN :
        LET from_left ==
              try_to_extract_join_predicate(WithPredicate(nodes, k, op, param, col), k, M,
                                            below)
            from_right ==
              try_to_extract_join_predicate(WithPredicate(nodes, k, op, col, param), k, M,
                                            below)
        IN
        IF below /\ op # "Equals" THEN from_left = NoExpr /\ from_right = NoExpr
        ELSE /\ from_left = BinaryPredicate(op, M[param.ref], col)
             /\ from_right = BinaryPredicate(MirrorCondition(op), M[param.ref], col)
             /\ \A u \in OperandValues, v \in OperandValues :
                  /\ Compare(from_left.cond, u, v) = Compare(op, u, v)
                  /\ Compare(from_right.cond, u, v) = Compare(op, v, u)

\* a join made with a.c > b.c, extracted from b.c < $1
C19_Witness ==
  /\ last.kind = "rewrite"
  /\ \E k \in visit_lqp(input_nodes, SubqueryOf_predicate(input_nodes[last.node].node_expressions[1]).ref) :
       /\ input_nodes[k].type = "Predicate"
       /\ input_nodes[k].node_expressions[1].cond = "LessThan"
       /\ input_nodes[k].node_expressions[1].args[2].type = "CorrelatedParameter"
  /\ \E i \in DOMAIN nodes[last.join].node_expressions :
       Norm(nodes[last.join].node_expressions[i]) =
         ColumnCompares("GreaterThan", Column(TableA, "c", 0), Column(TableB, "c", 0))

\* the base predicate, if there is one, then the extracted predicates in the
\* order of the finder
CollectedPredicates(info, found) ==
  (IF info.base_join_predicate = NoExpr THEN NoSeq ELSE <<info.base_join_predicate>>)
    \o [i \in DOMAIN found |-> found[i].second]

\* the position of the first equality of the list that is not the base
\* predicate
FirstPulledEquality(info, collected) ==
  CHOOSE k \in DOMAIN collected :
    /\ collected[k].cond = "Equals"
    /\ k = 1 => info.base_join_predicate = NoExpr
    /\ \A j \in 1 .. k - 1 :
         collected[j].cond = "Equals" => j = 1 /\ info.base_join_predicate # NoExpr

\* C20: in a rewrite the predicates of the join are the base predicate and
\* the extracted predicates: as collected when the base predicate is an
\* equality, otherwise with the first extracted equality and the front
\* exchanged and everything else in its place.
C20_JoinPredicateAssembly ==
  [][(Running /\ last'.kind = "rewrite") =>
       LET info == extract_input_lqp_info(nodes, Current)
           collected ==
             CollectedPredicates(info,
               find_pullable_predicate_nodes(nodes, info.subquery_expression.ref,
                 parameter_mapping(info.subquery_expression)))
           emitted == nodes'[last'.join].node_expressions
       IN
       IF info.base_join_predicate # NoExpr /\ info.base_join_predicate.cond = "Equals"
       THEN emitted = collected
       ELSE emitted =
              [collected EXCEPT
                 ![1] = collected[FirstPulledEquality(info, collected)],
                 ![FirstPulledEquality(info, collected)] = collected[1]]]_vars

\* a join of three predicates: the base predicate, a less-than, went to the
\* back in exchange for the equality extracted last
C20_Witness ==
  /\ last.kind = "rewrite"
  /\ input_nodes[last.node].node_expressions[1].cond = "LessThan"
  /\ Len(nodes[last.join].node_expressions) = 3
  /\ nodes[last.join].node_expressions[1].cond = "Equals"
  /\ nodes[last.join].node_expressions[2].cond = "GreaterThan"
  /\ nodes[last.join].node_expressions[3].cond = "LessThan"

\* C21 as claimed: for a candidate whose subquery plan the analyzer takes as
\* optimizable, the finder returns no more pairs than the analyzer counted
\* correlated Predicate nodes, so that no call of apply_to ends in the branch
\* of the DebugAssert of line 532: no decline comes from there, and the only
\* assertion that fails is the one of the classifier.
C21_FinderNeverExceedsCount ==
  /\ last.kind # "inconsistent"
  /\ last.kind = "failed" => extract_input_lqp_info(nodes, last.node).kind = "fail"
  /\ (Running /\ IsCandidate(nodes, Current)) =>
       LET sub == SubqueryOf_predicate(nodes[Current].node_expressions[1])
           M == parameter_mapping(sub)
           usage == assess_correlated_parameter_usage(nodes, sub.ref, M)
       IN ~usage.not_optimizable =>
            Len(find_pullable_predicate_nodes(nodes, sub.ref, M))
              <= usage.correlated_predicate_node_count

\* no two places of the list hold equal expressions
DuplicateFree(es) ==
  \A i, j \in DOMAIN es : ExprEq(es[i], es[j]) => i = j

\* the expressions a node adapted from the node o has after those of o: the
\* group-by expressions for an Aggregate node, the whole list otherwise; NoSeq
\* when q does not begin as o does
AddedExpressions(q, o) ==
  LET mine == IF q.type = "Aggregate" THEN GroupByOf(q) ELSE q.node_expressions
      theirs == IF o.type = "Aggregate" THEN GroupByOf(o) ELSE o.node_expressions
  IN IF Len(mine) >= Len(theirs) /\ SubSeq(mine, 1, Len(theirs)) = theirs
     THEN SubSeq(mine, Len(theirs) + 1, Len(mine))
     ELSE NoSeq

\* the nodes the call made
FreshNodes == {k \in DOMAIN nodes' : k \notin DOMAIN nodes}

\* C22 as claimed: when a candidate is rewritten, the list of required columns
\* that copy_and_adapt_lqp returns for the subquery plan holds no two equal
\* expressions, and every Aggregate, Projection and Alias node made for the
\* adapted plan has, after the expressions of the node it is adapted from, no
\* expression twice.
C22_RequiredColumnsDuplicateFree ==
  [][(Running /\ IsCandidate(nodes, Current) /\ last'.kind = "rewrite") =>
       LET sub == SubqueryOf_predicate(nodes[Current].node_expressions[1])
           found == find_pullable_predicate_nodes(nodes, sub.ref, parameter_mapping(sub))
       IN
       /\ DuplicateFree(copy_and_adapt_lqp(nodes, sub.ref, found).required_column_expressions)
       /\ \A k \in FreshNodes :
            nodes'[k].type \in {"Aggregate", "Projection", "Alias"} =>
              \A o \in visit_lqp(nodes, sub.ref) :
                nodes[o].type = nodes'[k].type =>
                  DuplicateFree(AddedExpressions(nodes'[k], nodes[o]))]_vars

\* the expressions of the list required that are equal to none of original,
\* in the order of required
NotAmong(required, original) ==
  SelectSeq(required, LAMBDA e : \A i \in DOMAIN original : ~ExprEq(e, original[i]))

\* the required columns that reach the node o of the subquery plan: those of
\* the predicates removed from its input
RequiredBelow(h, o, found) ==
  copy_and_adapt_lqp(h, h[o].left_input, found).required_column_expressions

AggregateExpressionsOf(q) ==
  SubSeq(q.node_expressions, q.aggregate_expressions_begin_idx + 1, Len(q.node_expressions))

\* the nodes of the adapted subquery plan that the call made
AdaptedNodes == FreshNodes \cap visit_lqp(nodes', last'.adapted)

\* C23: when a candidate is rewritten, every Aggregate node safely reached in
\* its subquery plan has in the adapted plan a copy whose group-by expressions
\* are the original ones, in their order, followed by the required columns
\* that equal none of them, and whose aggregate expressions are the original
\* ones.
C23_AggregateAdaptation ==
  [][(Running /\ IsCandidate(nodes, Current) /\ last'.kind = "rewrite") =>
       LET sub == SubqueryOf_predicate(nodes[Current].node_expressions[1])
           found == find_pullable_predicate_nodes(nodes, sub.ref, parameter_mapping(sub))
       IN \A o \in SafelyReached(nodes, sub.ref) :
            nodes[o].type = "Aggregate" =>
              \E k \in AdaptedNodes :
                /\ nodes'[k].type = "Aggregate"
                /\ GroupByOf(nodes'[k]) =
                     GroupByOf(nodes[o])
                       \o NotAmong(RequiredBelow(nodes, o, found), GroupByOf(nodes[o]))
                /\ AggregateExpressionsOf(nodes'[k]) = AggregateExpressionsOf(nodes[o])]_vars

\* a rewrite of a subquery plan with an Aggregate node grouping by b.a and
\* b.b over a Predicate node comparing b.b with a parameter: the predicate is
\* removed, its column is an original group-by expression and is not added
C23_Witness ==
  /\ last.kind = "rewrite"
  /\ \E k \in visit_lqp(nodes, last.adapted), o \in DOMAIN input_nodes :
       /\ k \notin DOMAIN input_nodes
       /\ nodes[k].type = "Aggregate"
       /\ input_nodes[o].type = "Aggregate"
       /\ GroupByOf(input_nodes[o]) = <<Column(TableB, "a", 0), Column(TableB, "b", 0)>>
       /\ nodes[k].node_expressions = input_nodes[o].node_expressions
       /\ \E p \in visit_lqp(input_nodes, o) :
            /\ input_nodes[p].type = "Predicate"
            /\ ExprEq(input_nodes[p].node_expressions[1], EqBParam0(0))
            /\ p \notin visit_lqp(nodes, last.adapted)

\* C24: when a candidate is rewritten, every Projection and Alias node safely
\* reached in its subquery plan has in the adapted plan a copy whose
\* expressions are the original ones, in their order and with their
\* duplicates, followed by the required columns that equal none of them; the
\* copy of an Alias node has as many aliases as expressions, the original
\* aliases first and then the column name of each added expression.
C24_ProjectionAndAliasAdaptation ==
  [][(Running /\ IsCandidate(nodes, Current) /\ last'.kind = "rewrite") =>
       LET sub == SubqueryOf_predicate(nodes[Current].node_expressions[1])
           found == find_pullable_predicate_nodes(nodes, sub.ref, parameter_mapping(sub))
       IN \A o \in SafelyReached(nodes, sub.ref) :
            nodes[o].type \in {"Projection", "Alias"} =>
              LET added == NotAmong(RequiredBelow(nodes, o, found), nodes[o].node_expressions)
              IN \E k \in AdaptedNodes :
                   /\ nodes'[k].type = nodes[o].type
                   /\ nodes'[k].node_expressions = nodes[o].node_expressions \o added
                   /\ nodes[o].type = "Alias" =>
                        /\ Len(nodes'[k].aliases) = Len(nodes'[k].node_expressions)
                        /\ SubSeq(nodes'[k].aliases, 1, Len(nodes[o].aliases)) = nodes[o].aliases
                        /\ \A i \in DOMAIN added :
                             nodes'[k].aliases[Len(nodes[o].aliases) + i]
                               = as_column_name(added[i])]_vars

\* a rewrite of a subquery plan with a Projection of b.a over an Alias node
\* for b.a and b.b over a removed Predicate node on b.b: the copy of the Alias
\* node is as the original, b.b being among its expressions, and the copy of
\* the Projection has b.b added
C24_Witness ==
  /\ last.kind = "rewrite"
  /\ \E j, k \in visit_lqp(nodes, last.adapted) :
       /\ j \notin DOMAIN input_nodes
       /\ k \notin DOMAIN input_nodes
       /\ nodes[j].type = "Projection"
       /\ nodes[j].left_input = k
       /\ Len(nodes[j].node_expressions) = 2
       /\ nodes[j].node_expressions[1] = Column(TableB, "a", 0)
       /\ ExprEq(nodes[j].node_expressions[2], Column(TableB, "b", 0))
       /\ nodes[k].type = "Alias"
       /\ nodes[k].node_expressions = <<Column(TableB, "a", 0), Column(TableB, "b", 0)>>
       /\ nodes[k].aliases = <<"x", "y">>
       /\ \E p \in visit_lqp(input_nodes, SubqueryOf_predicate(nodes[last.node].node_expressions[1]).ref) :
            /\ input_nodes[p].type = "Predicate"
            /\ ExprEq(input_nodes[p].node_expressions[1], EqBParam0(0))
            /\ p \notin visit_lqp(nodes, last.adapted)

\* C25: when a candidate is rewritten, the root of the adapted subquery plan
\* produces the inner column of every pulled join predicate and every column
\* the root of the original subquery plan produced.
C25_AdaptedRootExposesColumns ==
  [][(Running /\ IsCandidate(nodes, Current) /\ last'.kind = "rewrite") =>
       LET sub == SubqueryOf_predicate(nodes[Current].node_expressions[1])
           found == find_pullable_predicate_nodes(nodes, sub.ref, parameter_mapping(sub))
           exposed == column_expressions(nodes', last'.adapted)
           original == column_expressions(nodes, sub.ref)
       IN
       /\ \A i \in DOMAIN found : InList(found[i].second.args[2], exposed)
       /\ \A i \in DOMAIN original : InList(original[i], exposed)]_vars

\* a rewrite of a subquery plan whose root, a Projection of b.a, is above an
\* inner join with the removed Predicate node on b.b in its right input: the
\* adapted root produces b.a and b.b
C25_Witness ==
  /\ last.kind = "rewrite"
  /\ nodes[last.adapted].type = "Projection"
  /\ LET sub == SubqueryOf_predicate(nodes[last.node].node_expressions[1]) IN
     /\ input_nodes[sub.ref].node_expressions = <<Column(TableB, "a", 0)>>
     /\ input_nodes[input_nodes[sub.ref].left_input].type = "Join"
     /\ \E p \in visit_lqp(input_nodes,
                           input_nodes[input_nodes[sub.ref].left_input].right_input) :
          /\ input_nodes[p].type = "Predicate"
          /\ ExprEq(input_nodes[p].node_expressions[1], EqBParam0(0))
          /\ p \notin visit_lqp(nodes, last.adapted)
  /\ InList(Column(TableB, "a", 0), column_expressions(nodes, last.adapted))
  /\ InList(Column(TableB, "b", 0), column_expressions(nodes, last.adapted))

\* the Predicate nodes of the plan under n that compare a column with a
\* parameter the mapping M does not bind
ForeignComparisons(h, n, M) ==
  {f \in visit_lqp(h, n) :
     /\ h[f].type = "Predicate"
     /\ h[f].node_expressions[1].type = "Predicate"
     /\ h[f].node_expressions[1].cond \in ComparisonConditions
     /\ \E i \in {1, 2} :
          /\ h[f].node_expressions[1].args[i].type = "CorrelatedParameter"
          /\ h[f].node_expressions[1].args[i].ref \notin DOMAIN M
          /\ h[f].node_expressions[1].args[3 - i].type = "LQPColumn"}

\* the plan with a literal in the place of the parameter of the node f
WithLiteral(h, f) ==
  WithPredicate(h, f, h[f].node_expressions[1].cond,
                IF h[f].node_expressions[1].args[1].type = "CorrelatedParameter"
                THEN Value(1) ELSE h[f].node_expressions[1].args[1],
                IF h[f].node_expressions[1].args[2].type = "CorrelatedParameter"
                THEN Value(1) ELSE h[f].node_expressions[1].args[2])

\* C26: for a candidate whose subquery plan has a Predicate node f comparing a
\* column with a parameter the subquery does not bind, the analyzer does not
\* take f as correlated and gives what it gives for the plan with a literal in
\* the place of the parameter, the call of apply_to ends as it does for that
\* plan, the finder returns no pair for f, and after a rewrite the adapted
\* plan has a Predicate node with the predicate of f, a fresh one when f is
\* safely reached.
C26_ForeignParametersStay ==
  [][(Running /\ IsCandidate(nodes, Current)) =>
       LET sub == SubqueryOf_predicate(nodes[Current].node_expressions[1])
           M == parameter_mapping(sub)
           found == find_pullable_predicate_nodes(nodes, sub.ref, M)
       IN \A f \in ForeignComparisons(nodes, sub.ref, M) :
            /\ ~uses_correlated_parameters(nodes, f, M)
            /\ assess_correlated_parameter_usage(nodes, sub.ref, M)
                 = assess_correlated_parameter_usage(WithLiteral(nodes, f), sub.ref, M)
            /\ last'.kind = apply_to(WithLiteral(nodes, f), Current).outcome
                 \/ last'.kind = "failed"
            /\ \A i \in DOMAIN found : found[i].first # f
            /\ last'.kind = "rewrite" =>
                 \E k \in visit_lqp(nodes', last'.adapted) :
                   /\ nodes'[k].type = "Predicate"
                   /\ nodes'[k].node_expressions = nodes[f].node_expressions
                   /\ f \in SafelyReached(nodes, sub.ref) => k \in FreshNodes]_vars

\* a rewrite of a subquery plan with a Predicate node on an unbound parameter
\* and a Predicate node on a bound one: the first is copied into the adapted
\* plan, the second is removed
C26_Witness ==
  /\ last.kind = "rewrite"
  /\ LET sub == SubqueryOf_predicate(nodes[last.node].node_expressions[1]) IN
     /\ \E f \in ForeignComparisons(input_nodes, sub.ref, parameter_mapping(sub)) :
          \E k \in visit_lqp(nodes, last.adapted) :
            /\ k \notin DOMAIN input_nodes
            /\ nodes[k].node_expressions = input_nodes[f].node_expressions
     /\ \E p \in visit_lqp(input_nodes, sub.ref) :
          /\ input_nodes[p].type = "Predicate"
          /\ ExprEq(input_nodes[p].node_expressions[1], EqBParam0(0))
          /\ p \notin visit_lqp(nodes, last.adapted)

\* the node types copy_and_adapt_lqp has a case for
AdaptedTypes == {"Predicate", "Aggregate", "Alias", "Projection", "Sort", "Validate", "Join"}

\* the nodes of the pairs
RemovedNodes(found) == {found[i].first : i \in DOMAIN found}

\* m is an instance of its own with the type of n
FreshCopy(h, n, g, m) == m \notin DOMAIN h /\ m \in DOMAIN g /\ g[m].type = h[n].type

\* the plan under m in the heap g is the plan under n in the heap h with the
\* nodes of removed taken out, every node above one of them a fresh instance
\* and everything below one of them the same instances; below says that a
\* removed node is above n
RECURSIVE ReusedBelowRemoved(_, _, _, _, _, _)
ReusedBelowRemoved(h, n, g, m, removed, below) ==
  IF n \in removed THEN ReusedBelowRemoved(h, h[n].left_input, g, m, removed, TRUE)
  ELSE IF below THEN m = n
  ELSE IF SafelyReached(h, n) \cap removed = {} THEN TRUE
  ELSE
    /\ FreshCopy(h, n, g, m)
    /\ IF calculate_safe_recursion_sides(h, n).left
       THEN ReusedBelowRemoved(h, h[n].left_input, g, g[m].left_input, removed, FALSE)
       ELSE g[m].left_input = h[n].left_input
    /\ IF calculate_safe_recursion_sides(h, n).right
       THEN ReusedBelowRemoved(h, h[n].right_input, g, g[m].right_input, removed, FALSE)
       ELSE g[m].right_input = h[n].right_input

\* the plan under m in the heap g is the plan under n in the heap h with the
\* nodes of removed taken out, every node on a safe path that has one of the
\* adapted types a fresh instance, and the same instances where the recursion
\* stops: at a node of another type and at an input that is not safe
RECURSIVE CopiedOnSafePaths(_, _, _, _, _)
CopiedOnSafePaths(h, n, g, m, removed) ==
  IF n \in removed THEN CopiedOnSafePaths(h, h[n].left_input, g, m, removed)
  ELSE IF h[n].type \notin AdaptedTypes THEN m = n
  ELSE
    /\ FreshCopy(h, n, g, m)
    /\ IF calculate_safe_recursion_sides(h, n).left
       THEN CopiedOnSafePaths(h, h[n].left_input, g, g[m].left_input, removed)
       ELSE g[m].left_input = h[n].left_input
    /\ IF calculate_safe_recursion_sides(h, n).right
       THEN CopiedOnSafePaths(h, h[n].right_input, g, g[m].right_input, removed)
       ELSE g[m].right_input = h[n].right_input

\* C27 as claimed: when a candidate is rewritten, the adapted subquery plan
\* has a fresh node for every node above a removed Predicate node and, below a
\* removed Predicate node, the node instances of the original plan.
C27_FreshAboveReusedBelow ==
  [][(Running /\ IsCandidate(nodes, Current) /\ last'.kind = "rewrite") =>
       LET sub == SubqueryOf_predicate(nodes[Current].node_expressions[1])
           found == find_pullable_predicate_nodes(nodes, sub.ref, parameter_mapping(sub))
       IN ReusedBelowRemoved(nodes, sub.ref, nodes', last'.adapted,
                             RemovedNodes(found), FALSE)]_vars

\* C27, amended: when a candidate is rewritten, the adapted subquery plan has
\* a fresh node for every node of an adapted type on a safe path of the
\* original plan that is not removed, above a removed Predicate node and below
\* it alike; the node instances of the original plan are reused where the
\* recursion stops, at a node of another type and at a join input that is not
\* safe.
C27_FreshOnSafePaths ==
  [][(Running /\ IsCandidate(nodes, Current) /\ last'.kind = "rewrite") =>
       LET sub == SubqueryOf_predicate(nodes[Current].node_expressions[1])
           found == find_pullable_predicate_nodes(nodes, sub.ref, parameter_mapping(sub))
       IN CopiedOnSafePaths(nodes, sub.ref, nodes', last'.adapted, RemovedNodes(found))]_vars

\* a rewrite of a subquery plan with a Projection over a removed Predicate
\* node over a Sort node over the table b: the adapted plan is a fresh
\* Projection over a fresh Sort node over the same table node
C27_Witness ==
  /\ last.kind = "rewrite"
  /\ LET sub == SubqueryOf_predicate(nodes[last.node].node_expressions[1])
         p == input_nodes[sub.ref].left_input
     IN
     /\ input_nodes[sub.ref].type = "Projection"
     /\ input_nodes[p].type = "Predicate"
     /\ p \notin visit_lqp(nodes, last.adapted)
     /\ input_nodes[input_nodes[p].left_input].type = "Sort"
     /\ input_nodes[input_nodes[input_nodes[p].left_input].left_input].type = "StoredTable"
     /\ last.adapted \notin DOMAIN input_nodes
     /\ nodes[last.adapted].type = "Projection"
     /\ nodes[last.adapted].left_input \notin DOMAIN input_nodes
     /\ nodes[nodes[last.adapted].left_input].type = "Sort"
     /\ nodes[nodes[last.adapted].left_input].left_input
          = input_nodes[input_nodes[p].left_input].left_input

\* C28: copy_and_adapt_lqp, which apply_to calls before it rewrites and before
\* it declines for want of an equals predicate, leaves every node that was
\* there before the call as it was, with its type, expressions and inputs; and
\* after the step of apply_to the nodes of the original subquery plan are
\* still as they were.
C28_OriginalPlanNotMutated ==
  [][(/\ Running
      /\ IsCandidate(nodes, Current)
      /\ last'.kind \in {"rewrite", "no_equals_predicate"}) =>
       LET sub == SubqueryOf_predicate(nodes[Current].node_expressions[1])
           found == find_pullable_predicate_nodes(nodes, sub.ref, parameter_mapping(sub))
           info == copy_and_adapt_lqp(nodes, sub.ref, found)
       IN
       /\ Len(info.heap) >= Len(nodes)
       /\ \A k \in DOMAIN nodes : info.heap[k] = nodes[k]
       /\ \A k \in visit_lqp(nodes, sub.ref) : nodes'[k] = nodes[k]]_vars

\* a rewrite of a subquery plan with a Projection over a removed Predicate
\* node: the adapted plan has a Projection of its own with one more
\* expression, and the original Projection, still over the Predicate node,
\* and the Predicate node are as in the input plan
C28_Witness ==
  /\ last.kind = "rewrite"
  /\ LET sub == SubqueryOf_predicate(nodes[last.node].node_expressions[1])
         p == input_nodes[sub.ref].left_input
     IN
     /\ input_nodes[sub.ref].type = "Projection"
     /\ input_nodes[p].type = "Predicate"
     /\ p \notin visit_lqp(nodes, last.adapted)
     /\ last.adapted # sub.ref
     /\ nodes[last.adapted].type = "Projection"
     /\ Len(nodes[last.adapted].node_expressions) > Len(input_nodes[sub.ref].node_expressions)
     /\ nodes[sub.ref] = input_nodes[sub.ref]
     /\ nodes[p] = input_nodes[p]

\* C29 as claimed: when a candidate is rewritten, the left operand of every
\* predicate of the new Join is a column of the left input of the Join, the
\* left input the rewritten Predicate node had, and the right operand is a
\* column of the root of the adapted subquery plan.
C29_JoinOperandsResolve ==
  [][(Running /\ last'.kind = "rewrite") =>
       LET join == nodes'[last'.join] IN
       /\ join.left_input = nodes[Current].left_input
       /\ join.right_input = last'.adapted
       /\ \A i \in DOMAIN join.node_expressions :
            /\ Len(join.node_expressions[i].args) = 2
            /\ find_column_id(nodes', join.left_input, join.node_expressions[i].args[1])
            /\ find_column_id(nodes', join.right_input, join.node_expressions[i].args[2])]_vars

\* C30 as claimed: after a rewrite no node reached over the inputs from the
\* right input of the new Join has an expression with a parameter that the
\* subquery of the rewritten Predicate node binds.
C30_CompleteDecorrelation ==
  last.kind = "rewrite" =>
    \A k \in visit_lqp(nodes, nodes[last.join].right_input) :
      ~uses_correlated_parameters(
         nodes, k,
         parameter_mapping(SubqueryOf_predicate(nodes[last.node].node_expressions[1])))

====
